---- MODULE Spec2Model ----
(***************************************************************************)
(* The journey animation director of NomadRoute                            *)
(* (src/unnamed/part_000 lines 1-285: stopAnimation, animateJourney,       *)
(* animateLeg) together with the lerp helper of src/src/utils/geo.js,      *)
(* as a state machine of the browser's event loop: every action is one     *)
(* task of the loop (a call from the application, a timer that fires, an   *)
(* animation frame that is delivered) run up to the next suspension.       *)
(***************************************************************************)
EXTENDS Integers, Sequences, FiniteSets

(***************************************************************************)
(* Bounds of the model.                                                    *)
(***************************************************************************)
\* animateJourney calls made by the application or by a callback
MaxRuns == 2
\* stopAnimation calls made by the application
MaxStops == 1
\* a collaborator call of one task may throw: the calls of a task are
\* numbered from 1 and the MaxFuse first ones can be the one that throws
MaxFuse == 8

(***************************************************************************)
(* JavaScript numbers.  A number is a set holding at most one fixed-point  *)
(* value (the real number times FP); the empty set is NaN.  Arithmetic on  *)
(* NaN gives NaN and every comparison with NaN is false, as in IEEE 754.   *)
(***************************************************************************)
\* F applied to the value of x.  (TLC evaluates the argument of an operator
\* each time the operator uses it; a bound variable is evaluated once.)
Once(x, F(_)) == CHOOSE v \in {F(y) : y \in {x}} : TRUE

FP == 10 * 1000

NaN == {}

Num(n) == {n}

\* the decimal n/d, e.g. Q(1, 10) is 0.1
Q(n, d) == {(n * FP) \div d}

IsNaN(a) == a = {}

Plus(a, b) == {x + y : x \in a, y \in b}

Minus(a, b) == {x - y : x \in a, y \in b}

Times(a, b) == {(x * y) \div FP : x \in a, y \in b}

\* x / 0 is an infinity or NaN in JavaScript; no caller divides by 0
Div(a, b) == {(x * FP) \div y : x \in a, y \in b \ {0}}

Lt(a, b) == \E x \in a, y \in b : x < y

Le(a, b) == \E x \in a, y \in b : x <= y

Gt(a, b) == \E x \in a, y \in b : x > y

Ge(a, b) == \E x \in a, y \in b : x >= y

Abs(x) == IF x < 0 THEN -x ELSE x

\* `v || d` on a number v: 0 and NaN are falsy
OrElse(v, d) == IF v = NaN \/ v = Num(0) THEN d ELSE v

(***************************************************************************)
(* JavaScript arrays are sequences; a[k] of an array that has no element k *)
(* (and of a number, which has no elements at all) is undefined, and       *)
(* undefined is NaN in arithmetic.                                         *)
(***************************************************************************)
Elem(a, k) == IF k \in DOMAIN a THEN a[k] ELSE NaN

\* a number used where an array is expected: indexing it gives undefined
NumAsArray(n) == << >>

\* an array used where a number is expected (ToNumber of its string form)
ArrayToNumber(a) ==
    IF Len(a) = 0 THEN Num(0) ELSE IF Len(a) = 1 THEN a[1] ELSE NaN

(***************************************************************************)
(* GeoMath (src/src/utils/geo.js).  A point is <<lng, lat>>.               *)
(***************************************************************************)
\* every coordinate of the point is NaN
NaNPoint == <<NaN, NaN>>

\* the great-circle distance of turf, for the points of the model's paths,
\* which lie on one line: the length of the difference of the coordinates
getDistance(c1, c2) ==
    {Abs(x1 - x2) + Abs(y1 - y2) :
        x1 \in Elem(c1, 1), x2 \in Elem(c2, 1), y1 \in Elem(c1, 2), y2 \in Elem(c2, 2)}

\* lerp with the fraction clamped to 0..1
lerp_Clamped(from, to, fraction) ==
    LET t == IF Gt(fraction, Q(1, 1)) THEN Q(1, 1)
             ELSE IF Lt(fraction, Num(0)) THEN Num(0) ELSE fraction
    IN  Once(from, LAMBDA p1 : Once(to, LAMBDA p2 :
        << Plus(Elem(p1, 1), Times(Minus(Elem(p2, 1), Elem(p1, 1)), t)),
           Plus(Elem(p1, 2), Times(Minus(Elem(p2, 2), Elem(p1, 2)), t)) >>))

\* lines 57-62
lerp(from, to, t) ==
    Once(from, LAMBDA p1 : Once(to, LAMBDA p2 :
        << Plus(Elem(p1, 1), Times(Minus(Elem(p2, 1), Elem(p1, 1)), t)),
           Plus(Elem(p1, 2), Times(Minus(Elem(p2, 2), Elem(p1, 2)), t)) >>))

(***************************************************************************)
(* Mode tables (src/unnamed/part_000 lines 7-47).                          *)
(***************************************************************************)
Modes == {"walk", "bike", "car", "bus", "train", "plane", "teleport"}

DEFAULT_MODE_ZOOMS ==
    [walk |-> Q(13, 1), bike |-> Q(12, 1), car |-> Q(10, 1), bus |-> Q(10, 1),
     train |-> Q(9, 1), plane |-> Q(3, 1), teleport |-> Q(9, 1)]

MODE_PITCH ==
    [walk |-> Q(50, 1), bike |-> Q(45, 1), car |-> Q(40, 1), bus |-> Q(45, 1),
     train |-> Q(40, 1), plane |-> Q(10, 1), teleport |-> Q(40, 1)]

DEFAULT_MODE_SPEEDS ==
    [walk |-> Q(1, 10), bike |-> Q(3, 10), car |-> Q(8, 10), bus |-> Q(6, 10),
     train |-> Q(1, 1), plane |-> Q(8, 1), teleport |-> Q(100, 1)]

\* { ...defaults, ...overrides }: the overrides win, key by key
Merge(defaults, overrides) ==
    [m \in DOMAIN defaults \cup DOMAIN overrides |->
        IF m \in DOMAIN overrides THEN overrides[m] ELSE defaults[m]]

\* table[mode] || fallback
Lookup(table, mode, fallback) ==
    IF mode \in DOMAIN table THEN OrElse(table[mode], fallback) ELSE fallback

(***************************************************************************)
(* The journeys the application hands to the director.  Coordinates and    *)
(* distances are in units of 1/FP km, so that the 0.0001 km of a           *)
(* degenerate segment is 1 and the 0.001 km of a degenerate leg is 10.     *)
(***************************************************************************)
Pt(x) == <<Num(x), Num(0)>>

Leg(mode, path, fromName, toName) ==
    [mode |-> mode, pathCoords |-> path, fromName |-> fromName, toName |-> toName]

\* a leg that is already where it goes
OnePoint == <<Pt(0)>>

\* two points, 0.0005 km apart
Short == <<Pt(0), Pt(5)>>

\* one segment of 1 km
Road == <<Pt(0), Pt(FP)>>

\* eleven points, each 0.0001 km from the next
Dense == [k \in 1..11 |-> Pt(k - 1)]

\* no name: the empty string, which is falsy
NoName == ""

NoSettings == << >>

Input(journey, labels, speeds, zooms) ==
    [journey |-> journey, labels |-> labels, speeds |-> speeds, zooms |-> zooms]

\* nothing to animate
NoJourney == Input(<< >>, TRUE, NoSettings, NoSettings)

\* two legs that are over at once, with labels and a zoom setting
Stroll ==
    Input(<<Leg("walk", OnePoint, "A", "B"), Leg("car", Short, NoName, NoName)>>,
          TRUE, NoSettings, [car |-> Q(12, 1)])

\* a leg that is over at once and a leg of duplicate points, without labels
Hop ==
    Input(<<Leg("car", Short, NoName, "B"), Leg("plane", Dense, NoName, NoName)>>,
          FALSE, NoSettings, NoSettings)

\* a leg with a negative speed and a leg with speed 0, both 1 km long
Drive ==
    Input(<<Leg("car", Road, NoName, "B"), Leg("bus", Road, NoName, "Y")>>,
          TRUE, [car |-> Q(0 - 1, 1), bus |-> Num(0)], NoSettings)

\* one leg of 1 km at the default speed of its mode
Cruise ==
    Input(<<Leg("train", Road, NoName, "Z")>>, FALSE, NoSettings, NoSettings)

\* one leg of duplicate points by plane
Flight ==
    Input(<<Leg("plane", Dense, NoName, "P")>>, FALSE, NoSettings, NoSettings)

Inputs == {NoJourney, Stroll, Hop, Drive, Cruise, Flight}

\* what the application's onComplete does when it is called: it returns, it
\* throws, it calls stopAnimation and throws, or it calls animateJourney
\* (with NestedInput) and throws
CompleteBehaviours == {"return", "throw", "stopThrow", "startThrow"}

NestedInput == Stroll

\* What the application does with the director: its k-th call of
\* animateJourney is handed inputs[k] and an onComplete that does
\* completes[k] (both start over when they are exhausted), and faulty says
\* whether collaborator calls can throw.
Plan(inputs, completes, faulty) ==
    [inputs |-> inputs, completes |-> completes, faulty |-> faulty]

Plans ==
    { Plan(<<Stroll, Hop>>, <<"return">>, FALSE),
      Plan(<<Drive, Stroll>>, <<"return">>, FALSE),
      Plan(<<Hop, Drive>>, <<"return">>, FALSE),
      Plan(<<NoJourney, Stroll>>, <<"throw", "stopThrow">>, FALSE),
      Plan(<<Stroll>>, <<"startThrow">>, FALSE),
      Plan(<<Hop, NoJourney>>, <<"throw", "startThrow">>, FALSE),
      Plan(<<Cruise>>, <<"return">>, FALSE),
      Plan(<<Flight>>, <<"return">>, FALSE),
      Plan(<<Stroll, Drive>>, <<"return">>, TRUE) }

Cyclic(seq, k) == seq[((k - 1) % Len(seq)) + 1]

(***************************************************************************)
(* State.                                                                  *)
(***************************************************************************)
VARIABLES
    currentRunId,      \* part_000 line 5
    animationFrameId,  \* part_000 line 4: 0 is null; the handles of run r
                       \* are 2r-1 and 2r, which its requests take in turn
                       \* (only the handle of the last request of a run can
                       \* still be pending)
    rafQueue,          \* the handles whose frame callback is pending in the
                       \* browser
    runs,              \* one record per animateJourney call, in call order:
                       \* the locals of the call and of its animateLeg, where
                       \* it is suspended, and what it has done so far
    view,              \* the map view, the marker and the label as last set
    log,               \* the collaborator calls and callbacks of the last task
    stops,             \* stopAnimation calls made by the application
    plan,              \* the inputs of the application's animateJourney calls
    geo,               \* a call of lerp on its own: its arguments and, once
                       \* it has returned, its result
    stopRequested,     \* src/map/animate.js line 6 (the director of that
                       \* file has this flag in place of currentRunId)
    isAnimating,       \* src/App.jsx line 188: the state of the application
                       \* that disables its Play and Clear buttons
    handlePlay         \* where the application's handlePlay is: "idle", or
                       \* "routing" while it awaits the routes of the legs

vars == <<currentRunId, animationFrameId, rafQueue, runs, view, log, stops, plan,
          geo, stopRequested, isAnimating, handlePlay>>

\* no call of lerp on its own is under way
NoCall == [p1 |-> NaNPoint, p2 |-> NaNPoint, t |-> NaN, out |-> << >>]

NoLeg == [active |-> FALSE]

EmptyView ==
    [marker |-> NaNPoint, glyph |-> "", activeTrail |-> << >>,
     completedTrail |-> << >>, completedBy |-> 0,
     camera |-> [op |-> "none", center |-> NaNPoint, zoom |-> NaN, pitch |-> NaN,
                 bearing |-> NaN],
     label |-> NoName, labelShown |-> FALSE]

\* the state as one record, with what the environment does in this task:
\* fuse (the number of the collaborator call that throws, 0 for none), exc
\* (the exception that is propagating: "none", or who threw it)
World(fuse) ==
    [rid |-> currentRunId, afid |-> animationFrameId, raf |-> rafQueue,
     runs |-> runs, view |-> view, log |-> << >>, fuse |-> fuse, exc |-> "none",
     flag |-> stopRequested, app |-> isAnimating]

Becomes(w) ==
    /\ currentRunId' = w.rid
    /\ animationFrameId' = w.afid
    /\ rafQueue' = w.raf
    /\ runs' = w.runs
    /\ view' = w.view
    /\ log' = w.log
    /\ stopRequested' = w.flag
    /\ isAnimating' = w.app

IsCurrent(w, r) == w.rid = w.runs[r].myRunId

(***************************************************************************)
(* Bookkeeping of what a run has done (not program state).                 *)
(***************************************************************************)
Suspended == {"openRead", "openFade", "settle", "leg", "arriveRead", "arriveFade"}

NewRun(id, in, does) ==
    [myRunId |-> id, journey |-> in.journey, labels |-> in.labels,
     onCompleteDoes |-> does,
     \* the caller passed an onError (the application's handlePlay does not)
     hasOnError |-> "onError" \notin DOMAIN in \/ in.onError,
     modeZooms |-> Merge(DEFAULT_MODE_ZOOMS, in.zooms),
     modeSpeeds |-> Merge(DEFAULT_MODE_SPEEDS, in.speeds),
     \* the settings argument of the call
     settings |-> [zooms |-> in.zooms, speeds |-> in.speeds],
     completedLegsCoords |-> << >>, i |-> 0, leg |-> NoLeg, pc |-> "start",
     \* the handle of the last frame the run requested, 0 for none
     handle |-> 0,
     \* how the call ended: "" while it has not
     end |-> "",
     \* the kinds of things done so far, and those done after the run was
     \* stopped or superseded while suspended
     acts |-> {}, late |-> {},
     \* what invalidated the run first, and whether a later animateJourney
     \* call was made while the run was suspended
     cancel |-> "", superseded |-> FALSE,
     nComplete |-> 0, nError |-> 0, legStarts |-> << >>,
     \* the legs handed to animateLeg, and how many of them have resolved
     started |-> << >>, resolved |-> 0,
     \* the exception that reached the catch of animateJourney: who threw it
     \* and whether the run was current then
     caught |-> << >>,
     \* a collaborator call threw inside a frame callback
     frameThrew |-> FALSE,
     \* the globals before and after the catch handled the exception
     handled |-> << >>,
     \* the state in which onComplete was called
     atComplete |-> << >>,
     \* the marker and the active trail when the promise of animateLeg was
     \* last resolved, whether the run was current and whether the leg had
     \* requested a frame
     atResolve |-> << >>,
     \* the view when the opening had placed the marker and set its camera
     atOpening |-> << >>]

Note(world, r, kind, name) ==
    Once(world, LAMBDA w :
        [w EXCEPT !.runs[r].acts = @ \cup {kind},
                  !.runs[r].late =
                      IF w.runs[r].cancel # "" \/ w.runs[r].superseded
                      THEN @ \cup {kind} ELSE @,
                  !.log = Append(@, <<r, name>>)])

\* the run that holds the live id, if it is suspended, is invalidated
MarkCancelled(world, cause) ==
    Once(world, LAMBDA w :
        [w EXCEPT !.runs =
            [r \in DOMAIN w.runs |->
                IF /\ w.runs[r].myRunId = w.rid
                   /\ w.runs[r].pc \in Suspended
                   /\ w.runs[r].cancel = ""
                THEN [w.runs[r] EXCEPT !.cancel = cause]
                ELSE w.runs[r]]])

MarkSuperseded(world) ==
    Once(world, LAMBDA w :
        [w EXCEPT !.runs =
            [r \in DOMAIN w.runs |->
                IF w.runs[r].pc \in Suspended
                THEN [w.runs[r] EXCEPT !.superseded = TRUE]
                ELSE w.runs[r]]])

(***************************************************************************)
(* Collaborator calls (the map view, the marker, the label hooks).  The    *)
(* call numbered fuse throws instead of taking effect.                     *)
(***************************************************************************)
Do(name, set) == [name |-> name, set |-> set]

\* the view after call c: the fields that c sets replace the old ones;
\* easeTo changes the zoom of the camera and leaves its centre
Apply(v, c) ==
    IF c.name = "easeTo"
    THEN [v EXCEPT !.camera = [op |-> "easeTo", center |-> v.camera.center,
                               zoom |-> IF "zoom" \in DOMAIN c.set THEN c.set.zoom
                                        ELSE Plus(v.camera.zoom, c.set.by),
                               pitch |-> v.camera.pitch, bearing |-> v.camera.bearing]]
    ELSE [f \in DOMAIN v |-> IF f \in DOMAIN c.set THEN c.set[f] ELSE v[f]]

Call(world, r, call) ==
    Once(world, LAMBDA w : Once(call, LAMBDA c :
        IF w.exc # "none" THEN w
        ELSE IF w.fuse = 1
             THEN [Note(w, r, "view", c.name) EXCEPT !.exc = "collaborator", !.fuse = 0]
             ELSE [Note(w, r, "view", c.name) EXCEPT
                      !.view = Apply(w.view, c), !.fuse = IF @ = 0 THEN 0 ELSE @ - 1]))

RECURSIVE Calls(_, _, _)
\* the calls cs, one after the other, up to the one that throws
Calls(w, r, calls) ==
    Once(calls, LAMBDA cs :
        IF cs = << >> THEN w ELSE Calls(Call(w, r, Head(cs)), r, Tail(cs)))

Camera(op, center, zoom, pitch) ==
    [camera |-> [op |-> op, center |-> center, zoom |-> zoom, pitch |-> pitch,
                 bearing |-> Num(0)]]

\* the run that was given handle h
Owner(h) == (h + 1) \div 2

\* requestAnimationFrame(frame) without the assignment of its handle
RequestFrame_Unrecorded(world, r) ==
    Once(world, LAMBDA w :
        LET h == IF w.runs[r].handle = 2 * r - 1 THEN 2 * r ELSE 2 * r - 1
        IN  [Note(w, r, "frame", "requestAnimationFrame") EXCEPT
                !.raf = @ \cup {h}, !.runs[r].handle = h])

\* requestAnimationFrame(frame) and the assignment of its handle
RequestFrame(world, r) ==
    Once(world, LAMBDA w :
        LET h == IF w.runs[r].handle = 2 * r - 1 THEN 2 * r ELSE 2 * r - 1
        IN  [Note(w, r, "frame", "requestAnimationFrame") EXCEPT
                !.raf = @ \cup {h}, !.afid = h, !.runs[r].handle = h])

\* wait(ms): the call is suspended until the timer fires
Suspend(world, r, pc) ==
    Once(world, LAMBDA w :
        [Note(w, r, "timer", "wait") EXCEPT !.runs[r].pc = pc])

\* the async function returns (or its promise is rejected)
Return(world, r, end) ==
    Once(world, LAMBDA w :
        [w EXCEPT !.runs[r].pc = "done", !.runs[r].end = end, !.exc = "none"])

(***************************************************************************)
(* stopAnimation (part_000 lines 49-55).                                   *)
(***************************************************************************)
\* a stopAnimation that advances the run id and leaves the frame pending
stopAnimation_KeepFrame(world) == Once(world, LAMBDA w : [w EXCEPT !.rid = @ + 1])

\* a stopAnimation that cancels the pending frame and keeps the run id
stopAnimation_SameRun(world) ==
    Once(world, LAMBDA w :
        [w EXCEPT !.raf = IF w.afid # 0 THEN @ \ {w.afid} ELSE @,
                  !.afid = 0])

stopAnimation(world) ==
    Once(world, LAMBDA w :
        [w EXCEPT !.rid = @ + 1,
                  !.raf = IF w.afid # 0 THEN @ \ {w.afid} ELSE @,
                  !.afid = 0])

onError(world, r) ==
    Once(world, LAMBDA w :
        IF ~w.runs[r].hasOnError THEN w
        ELSE [Note(w, r, "error", "onError") EXCEPT !.runs[r].nError = @ + 1])

Globals(w) == [rid |-> w.rid, afid |-> w.afid, raf |-> w.raf]

\* a catch that reports the exception and does not stop the session
Catch_NoStop(world, r) ==
    Once(world, LAMBDA w :
        LET w0 == [w EXCEPT !.exc = "none",
                            !.runs[r].caught = <<w.exc, IsCurrent(w, r)>>]
            w1 == IF IsCurrent(w0, r) THEN onError(w0, r) ELSE w0
        IN  Return([w1 EXCEPT !.runs[r].handled = <<Globals(w0), Globals(w1)>>,
                              !.runs[r].cancel = IF @ = "" THEN "error" ELSE @],
                   r, IF IsCurrent(w0, r) THEN "error" ELSE "swallowed"))

\* a catch that does not ask whether the run is still current
Catch_Always(world, r) ==
    Once(world, LAMBDA w :
        LET w0 == [w EXCEPT !.exc = "none",
                            !.runs[r].caught = <<w.exc, IsCurrent(w, r)>>]
            w1 == onError(stopAnimation(w0), r)
        IN  Return([w1 EXCEPT !.runs[r].handled = <<Globals(w0), Globals(w1)>>,
                              !.runs[r].cancel = IF @ = "" THEN "error" ELSE @],
                   r, IF IsCurrent(w0, r) THEN "error" ELSE "swallowed"))

\* the catch of animateJourney (part_000 lines 184-190)
Catch(world, r) ==
    Once(world, LAMBDA w :
        LET w0 == [w EXCEPT !.exc = "none",
                            !.runs[r].caught = <<w.exc, IsCurrent(w, r)>>]
            w1 == IF IsCurrent(w0, r) THEN onError(stopAnimation(w0), r) ELSE w0
        IN  Return([w1 EXCEPT !.runs[r].handled = <<Globals(w0), Globals(w1)>>,
                              !.runs[r].cancel = IF @ = "" THEN "error" ELSE @],
                   r, IF IsCurrent(w0, r) THEN "error" ELSE "swallowed"))

(***************************************************************************)
(* animateLeg (part_000 lines 193-285).                                    *)
(***************************************************************************)
RECURSIVE PathLength(_, _)
\* the loop of line 197, from segment k on
PathLength(path, k) ==
    IF k >= Len(path) THEN Num(0)
    ELSE Plus(getDistance(path[k], path[k + 1]), PathLength(path, k + 1))

\* path[k] of the JavaScript array, k counted from 0
At(path, k) == Elem(path, k + 1)

\* lines 230-232, as the multiplication of line 234 reads the factor: the
\* lerp of geo.js is handed numbers where it indexes arrays, and its result,
\* an array, is converted to a number
easeFactor(progressRatio) ==
    IF Gt(progressRatio, Q(9, 10))
    THEN ArrayToNumber(lerp(NumAsArray(Q(1, 1)), NumAsArray(Q(1, 10)),
                            Times(Minus(progressRatio, Q(9, 10)), Q(10, 1))))
    ELSE IF Lt(progressRatio, Q(1, 10))
    THEN ArrayToNumber(lerp(NumAsArray(Q(1, 10)), NumAsArray(Q(1, 1)),
                            Times(progressRatio, Q(10, 1))))
    ELSE Q(1, 1)

\* lines 236-242 with a skip that also adds to the fraction
Advance_SkipAndStep(locals, moveDist) ==
    Once(locals, LAMBDA l :
        IF Le(getDistance(l.p1, l.p2), Q(1, 10000))
        THEN [l EXCEPT !.currentPathIdx = @ + 1,
                        !.segmentProgress = Plus(@, Q(1, 2))]
        ELSE [l EXCEPT !.segmentProgress =
                  Plus(@, Div(moveDist, getDistance(l.p1, l.p2)))])

\* lines 236-242
Advance(locals, moveDist) ==
    Once(locals, LAMBDA l :
        IF Le(getDistance(l.p1, l.p2), Q(1, 10000))
        THEN [l EXCEPT !.currentPathIdx = @ + 1]
        ELSE [l EXCEPT !.segmentProgress =
                  Plus(@, Div(moveDist, getDistance(l.p1, l.p2)))])

RECURSIVE Cross(_)
\* the while loop of lines 244-257; finished: the leg was done inside it
Cross(locals) ==
    Once(locals, LAMBDA l :
        IF ~Ge(l.segmentProgress, Q(1, 1)) THEN l
        ELSE LET l1 == [l EXCEPT !.segmentProgress = Minus(@, Q(1, 1)),
                                 !.currentPathIdx = @ + 1,
                                 !.activeTrail = Append(@, l.p2)]
             IN  IF l1.currentPathIdx >= Len(l.path) - 1
                 THEN [l1 EXCEPT !.finished = TRUE]
                 ELSE Cross([l1 EXCEPT
                         !.p1 = At(l.path, l1.currentPathIdx),
                         !.p2 = At(l.path, l1.currentPathIdx + 1),
                         !.distanceCovered =
                             Plus(@, getDistance(At(l.path, l1.currentPathIdx - 1),
                                                 At(l.path, l1.currentPathIdx)))]))

\* path[path.length - 1]
Last(path) == At(path, Len(path) - 1)

SetLeg(world, r, l) == Once(world, LAMBDA w : [w EXCEPT !.runs[r].leg = l])

\* resolve() of the promise of animateLeg: the director's await continues
Resolve(world, r) ==
    Once(world, LAMBDA w :
        [w EXCEPT !.runs[r].leg = NoLeg, !.runs[r].resolved = @ + 1,
                  !.runs[r].pc = "running",
                  !.runs[r].atResolve =
                      <<[marker |-> w.view.marker,
                         activeTrail |-> w.view.activeTrail,
                         current |-> IsCurrent(w, r),
                         framed |-> w.runs[r].leg.active]>>])

\* an exception leaves the frame callback: nothing catches it, the promise
\* of animateLeg is never settled and no further frame is requested
Uncaught(world, r) ==
    Once(world, LAMBDA w :
        [w EXCEPT !.exc = "none", !.runs[r].frameThrew = TRUE])

RECURSIVE animateJourney(_, _, _)

\* the application's onComplete callback
onComplete(world, r) ==
    Once(world, LAMBDA w :
        LET w1 == [Note(w, r, "complete", "onComplete") EXCEPT
                      !.runs[r].nComplete = @ + 1,
                      !.runs[r].atComplete =
                          <<[legs |-> Len(w.runs[r].completedLegsCoords),
                             completedTrail |-> w.view.completedTrail,
                             completedBy |-> w.view.completedBy,
                             activeTrail |-> w.view.activeTrail,
                             labelShown |-> w.view.labelShown,
                             current |-> IsCurrent(w, r)]>>]
            does == w.runs[r].onCompleteDoes
        IN  CASE does = "return" -> w1
              \* the onComplete of handlePlay (src/App.jsx lines 403-406)
              [] does = "setIsAnimating" -> [w1 EXCEPT !.app = FALSE]
              [] does = "throw" -> [w1 EXCEPT !.exc = "callback"]
              [] does = "stopThrow" ->
                    [stopAnimation(MarkCancelled(w1, "stop")) EXCEPT !.exc = "callback"]
              [] does = "startThrow" ->
                    \* no more than MaxRuns calls of animateJourney are made
                    IF Len(w.runs) < MaxRuns
                    THEN [animateJourney(w1, NestedInput, "return") EXCEPT
                             !.exc = "callback"]
                    ELSE [w1 EXCEPT !.exc = "callback"])

\* line 182
Finale(world, r) ==
    Once(world, LAMBDA w :
        IF IsCurrent(w, r)
        THEN LET w1 == onComplete(w, r)
             IN  IF w1.exc # "none" THEN Catch(w1, r) ELSE Return(w1, r, "complete")
        ELSE Return(w, r, "stale"))

\* lines 122-143: the head of the loop and the camera transition of leg i
LegLoop(world, r) ==
    Once(world, LAMBDA w :
        LET run == w.runs[r]
            leg == run.journey[run.i + 1]
            w2 == Calls(w, r,
                    << Do("setGlyph", [glyph |-> leg.mode]),
                       Do("flyTo", Camera("flyTo", At(leg.pathCoords, 0),
                                          Lookup(run.modeZooms, leg.mode, Q(10, 1)),
                                          Lookup(MODE_PITCH, leg.mode, Q(40, 1)))) >>)
        IN  IF w.exc # "none" THEN Catch(w, r)
            ELSE IF run.i >= Len(run.journey) THEN Finale(w, r)
            ELSE IF ~IsCurrent(w, r) THEN Return(w, r, "stale")
            ELSE IF w2.exc # "none" THEN Catch(w2, r)
            ELSE Suspend(w2, r, "settle"))

\* lines 174-177 without the check of line 174
AfterArriveRead_Unchecked(world, r) ==
    Once(world, LAMBDA w :
        LET w1 == Call(w, r, Do("hideLabel", [labelShown |-> FALSE]))
        IN  IF w1.exc # "none" THEN Catch(w1, r)
            ELSE Suspend(w1, r, "arriveFade"))

\* lines 174-177 without the hideLabel call of line 176
AfterArriveRead_NoHide(world, r) ==
    Once(world, LAMBDA w :
        LET w1 == w
        IN  IF ~IsCurrent(w, r) THEN Return(w, r, "stale")
            ELSE IF w1.exc # "none" THEN Catch(w1, r)
            ELSE Suspend(w1, r, "arriveFade"))

\* lines 174-177
AfterArriveRead(world, r) ==
    Once(world, LAMBDA w :
        LET w1 == Call(w, r, Do("hideLabel", [labelShown |-> FALSE]))
        IN  IF ~IsCurrent(w, r) THEN Return(w, r, "stale")
            ELSE IF w1.exc # "none" THEN Catch(w1, r)
            ELSE Suspend(w1, r, "arriveFade"))

\* lines 178-180
AfterArriveFade(world, r) ==
    Once(world, LAMBDA w :
        IF ~IsCurrent(w, r) THEN Return(w, r, "stale")
        ELSE LegLoop([w EXCEPT !.runs[r].i = @ + 1], r))

\* lines 156-173 publishing the path of this leg alone
AfterLeg_Replace(world, r) ==
    Once(world, LAMBDA w :
        LET run == w.runs[r]
            leg == run.journey[run.i + 1]
            done == <<leg.pathCoords>>
            commit == << Do("updateActiveTrail", [activeTrail |-> << >>]),
                         Do("updateCompletedTrail",
                            [completedTrail |-> done, completedBy |-> r]) >>
            narrate == << Do("showLabel", [label |-> leg.toName, labelShown |-> TRUE]),
                          Do("easeTo", [by |-> Q(5, 10)]) >>
            w1 == Calls([w EXCEPT !.runs[r].completedLegsCoords = done], r,
                        IF run.labels THEN commit \o narrate ELSE commit)
        IN  IF ~IsCurrent(w, r) THEN Return(w, r, "stale")
            ELSE IF w1.exc # "none" THEN Catch(w1, r)
            ELSE IF run.labels THEN Suspend(w1, r, "arriveRead")
            ELSE LegLoop([w1 EXCEPT !.runs[r].i = @ + 1], r))

\* lines 156-173 with the arrival narrated before the leg is committed
AfterLeg_NarrateFirst(world, r) ==
    Once(world, LAMBDA w :
        LET run == w.runs[r]
            leg == run.journey[run.i + 1]
            done == Append(run.completedLegsCoords, leg.pathCoords)
            commit == << Do("updateActiveTrail", [activeTrail |-> << >>]),
                         Do("updateCompletedTrail",
                            [completedTrail |-> done, completedBy |-> r]) >>
            narrate == << Do("showLabel", [label |-> leg.toName, labelShown |-> TRUE]),
                          Do("easeTo", [by |-> Q(5, 10)]) >>
            w1 == Calls([w EXCEPT !.runs[r].completedLegsCoords = done], r,
                        IF run.labels THEN narrate \o commit ELSE commit)
        IN  IF ~IsCurrent(w, r) THEN Return(w, r, "stale")
            ELSE IF w1.exc # "none" THEN Catch(w1, r)
            ELSE IF run.labels THEN Suspend(w1, r, "arriveRead")
            ELSE LegLoop([w1 EXCEPT !.runs[r].i = @ + 1], r))

\* lines 156-173: the leg is committed and its arrival narrated
AfterLeg(world, r) ==
    Once(world, LAMBDA w :
        LET run == w.runs[r]
            leg == run.journey[run.i + 1]
            done == Append(run.completedLegsCoords, leg.pathCoords)
            commit == << Do("updateActiveTrail", [activeTrail |-> << >>]),
                         Do("updateCompletedTrail",
                            [completedTrail |-> done, completedBy |-> r]) >>
            narrate == << Do("showLabel", [label |-> leg.toName, labelShown |-> TRUE]),
                          Do("easeTo", [by |-> Q(5, 10)]) >>
            w1 == Calls([w EXCEPT !.runs[r].completedLegsCoords = done], r,
                        IF run.labels THEN commit \o narrate ELSE commit)
        IN  IF ~IsCurrent(w, r) THEN Return(w, r, "stale")
            ELSE IF w1.exc # "none" THEN Catch(w1, r)
            ELSE IF run.labels THEN Suspend(w1, r, "arriveRead")
            ELSE LegLoop([w1 EXCEPT !.runs[r].i = @ + 1], r))

\* lines 193-218 with a trail that starts at the second point of the path
animateLeg_TrailFromSecond(world, r) ==
    Once(world, LAMBDA w :
        LET run == w.runs[r]
            leg == run.journey[run.i + 1]
            path == leg.pathCoords
            speedBase == Lookup(run.modeSpeeds, leg.mode, Q(1, 1))
            totalDist == PathLength(path, 1)
            REAL_SPEED == Times(speedBase, Q(2, 10))
            l == [active |-> TRUE, path |-> path, totalDist |-> totalDist,
                  REAL_SPEED |-> REAL_SPEED, distanceCovered |-> Num(0),
                  currentPathIdx |-> 0, p1 |-> At(path, 0), p2 |-> At(path, 1),
                  segmentProgress |-> Num(0), activeTrail |-> <<At(path, 1)>>,
                  targetZoom |-> Lookup(run.modeZooms, leg.mode, Q(10, 1)),
                  targetPitch |-> Lookup(MODE_PITCH, leg.mode, Q(40, 1)),
                  finished |-> FALSE]
            w0 == [w EXCEPT !.runs[r].started = Append(@, run.i)]
            w1 == Call(SetLeg(w0, r, l), r,
                       Do("updateActiveTrail", [activeTrail |-> l.activeTrail]))
        IN  IF Lt(totalDist, Q(1, 1000)) \/ Lt(speedBase, Num(0))
            THEN AfterLeg(Resolve(w0, r), r)
            ELSE IF Le(REAL_SPEED, Num(0)) THEN AfterLeg(Resolve(w0, r), r)
            ELSE IF w1.exc # "none" THEN Catch(w1, r)
            ELSE [RequestFrame(w1, r) EXCEPT !.runs[r].pc = "leg"])

\* lines 193-218 without the length guard of line 199
animateLeg_NoLengthGuard(world, r) ==
    Once(world, LAMBDA w :
        LET run == w.runs[r]
            leg == run.journey[run.i + 1]
            path == leg.pathCoords
            speedBase == Lookup(run.modeSpeeds, leg.mode, Q(1, 1))
            totalDist == PathLength(path, 1)
            REAL_SPEED == Times(speedBase, Q(2, 10))
            l == [active |-> TRUE, path |-> path, totalDist |-> totalDist,
                  REAL_SPEED |-> REAL_SPEED, distanceCovered |-> Num(0),
                  currentPathIdx |-> 0, p1 |-> At(path, 0), p2 |-> At(path, 1),
                  segmentProgress |-> Num(0), activeTrail |-> <<At(path, 0)>>,
                  targetZoom |-> Lookup(run.modeZooms, leg.mode, Q(10, 1)),
                  targetPitch |-> Lookup(MODE_PITCH, leg.mode, Q(40, 1)),
                  finished |-> FALSE]
            w0 == [w EXCEPT !.runs[r].started = Append(@, run.i)]
            w1 == Call(SetLeg(w0, r, l), r,
                       Do("updateActiveTrail", [activeTrail |-> l.activeTrail]))
        IN  IF Lt(speedBase, Num(0))
            THEN AfterLeg(Resolve(w0, r), r)
            ELSE IF Le(REAL_SPEED, Num(0)) THEN AfterLeg(Resolve(w0, r), r)
            ELSE IF w1.exc # "none" THEN Catch(w1, r)
            ELSE [RequestFrame(w1, r) EXCEPT !.runs[r].pc = "leg"])

\* lines 193-218 and 283: the executor of the promise of animateLeg
animateLeg(world, r) ==
    Once(world, LAMBDA w :
        LET run == w.runs[r]
            leg == run.journey[run.i + 1]
            path == leg.pathCoords
            speedBase == Lookup(run.modeSpeeds, leg.mode, Q(1, 1))
            totalDist == PathLength(path, 1)
            REAL_SPEED == Times(speedBase, Q(2, 10))
            l == [active |-> TRUE, path |-> path, totalDist |-> totalDist,
                  REAL_SPEED |-> REAL_SPEED, distanceCovered |-> Num(0),
                  currentPathIdx |-> 0, p1 |-> At(path, 0), p2 |-> At(path, 1),
                  segmentProgress |-> Num(0), activeTrail |-> <<At(path, 0)>>,
                  targetZoom |-> Lookup(run.modeZooms, leg.mode, Q(10, 1)),
                  targetPitch |-> Lookup(MODE_PITCH, leg.mode, Q(40, 1)),
                  finished |-> FALSE]
            w0 == [w EXCEPT !.runs[r].started = Append(@, run.i)]
            w1 == Call(SetLeg(w0, r, l), r,
                       Do("updateActiveTrail", [activeTrail |-> l.activeTrail]))
        IN  IF Lt(totalDist, Q(1, 1000)) \/ Lt(speedBase, Num(0))
            THEN AfterLeg(Resolve(w0, r), r)
            ELSE IF Le(REAL_SPEED, Num(0)) THEN AfterLeg(Resolve(w0, r), r)
            ELSE IF w1.exc # "none" THEN Catch(w1, r)
            ELSE [RequestFrame(w1, r) EXCEPT !.runs[r].pc = "leg"])

\* lines 144-154 without the check of line 144
AfterSettle_Unchecked(world, r) == Once(world, LAMBDA w : animateLeg(w, r))

\* lines 144-154
AfterSettle(world, r) ==
    Once(world, LAMBDA w :
        IF ~IsCurrent(w, r) THEN Return(w, r, "stale") ELSE animateLeg(w, r))

\* line 228 as distanceCovered / totalDist alone
progressRatioAt_Unguarded(locals) ==
    Div(locals.distanceCovered, locals.totalDist)

\* line 228
progressRatioAt(locals) ==
    IF Gt(locals.totalDist, Num(0)) THEN Div(locals.distanceCovered, locals.totalDist)
    ELSE Q(1, 1)

\* lines 220-281 without the check of lines 259-262
frame_NoEndCheck(world, r) ==
    Once(world, LAMBDA w :
        LET l == w.runs[r].leg
            progressRatio == progressRatioAt(l)
            moveDist == Times(l.REAL_SPEED, easeFactor(progressRatio))
            l1 == Cross(Advance(l, moveDist))
            \* lines 249-251
            d == Calls(SetLeg(w, r, l1), r,
                    << Do("setLngLat", [marker |-> Last(l.path)]),
                       Do("updateActiveTrail", [activeTrail |-> l.path]) >>)
            \* lines 264-280
            l2 == [l1 EXCEPT !.p1 = At(l.path, l1.currentPathIdx),
                             !.p2 = At(l.path, l1.currentPathIdx + 1)]
            currentPos == lerp(l2.p1, l2.p2, l2.segmentProgress)
            leadPos == lerp(currentPos, l2.p2, Q(3, 10))
            m == Calls(SetLeg(w, r, l2), r,
                    << Do("setLngLat", [marker |-> currentPos]),
                       Do("updateActiveTrail",
                          [activeTrail |-> Append(l2.activeTrail, currentPos)]),
                       Do("jumpTo", Camera("jumpTo", leadPos, l2.targetZoom,
                                           l2.targetPitch)) >>)
        IN  IF ~IsCurrent(w, r) THEN AfterLeg(Resolve(w, r), r)
            ELSE IF l1.finished
                 THEN IF d.exc # "none" THEN Uncaught(d, r)
                      ELSE AfterLeg(Resolve(d, r), r)
            \* line 267: lerp indexes a point that is undefined (a TypeError)
            ELSE IF {l1.currentPathIdx + 1, l1.currentPathIdx + 2} \ DOMAIN l.path # {}
                 THEN Uncaught(SetLeg(w, r, l2), r)
            ELSE IF m.exc # "none" THEN Uncaught(m, r)
            ELSE RequestFrame(m, r))

\* lines 220-281: one frame callback
frame(world, r) ==
    Once(world, LAMBDA w :
        LET l == w.runs[r].leg
            progressRatio == progressRatioAt(l)
            moveDist == Times(l.REAL_SPEED, easeFactor(progressRatio))
            l1 == Cross(Advance(l, moveDist))
            \* lines 249-251
            d == Calls(SetLeg(w, r, l1), r,
                    << Do("setLngLat", [marker |-> Last(l.path)]),
                       Do("updateActiveTrail", [activeTrail |-> l.path]) >>)
            \* lines 264-280
            l2 == [l1 EXCEPT !.p1 = At(l.path, l1.currentPathIdx),
                             !.p2 = At(l.path, l1.currentPathIdx + 1)]
            currentPos == lerp(l2.p1, l2.p2, l2.segmentProgress)
            leadPos == lerp(currentPos, l2.p2, Q(3, 10))
            m == Calls(SetLeg(w, r, l2), r,
                    << Do("setLngLat", [marker |-> currentPos]),
                       Do("updateActiveTrail",
                          [activeTrail |-> Append(l2.activeTrail, currentPos)]),
                       Do("jumpTo", Camera("jumpTo", leadPos, l2.targetZoom,
                                           l2.targetPitch)) >>)
        IN  IF ~IsCurrent(w, r) THEN AfterLeg(Resolve(w, r), r)
            ELSE IF l1.finished
                 THEN IF d.exc # "none" THEN Uncaught(d, r)
                      ELSE AfterLeg(Resolve(d, r), r)
            ELSE IF l1.currentPathIdx >= Len(l.path) - 1
                 THEN AfterLeg(Resolve(SetLeg(w, r, l1), r), r)
            \* line 267: lerp indexes a point that is undefined (a TypeError)
            ELSE IF {l1.currentPathIdx + 1, l1.currentPathIdx + 2} \ DOMAIN l.path # {}
                 THEN Uncaught(SetLeg(w, r, l2), r)
            ELSE IF m.exc # "none" THEN Uncaught(m, r)
            ELSE RequestFrame(m, r))

\* lines 114-117
AfterOpenRead(world, r) ==
    Once(world, LAMBDA w :
        LET w1 == Call(w, r, Do("hideLabel", [labelShown |-> FALSE]))
        IN  IF ~IsCurrent(w, r) THEN Return(w, r, "stale")
            ELSE IF w1.exc # "none" THEN Catch(w1, r)
            ELSE Suspend(w1, r, "openFade"))

\* lines 118-119
AfterOpenFade(world, r) ==
    Once(world, LAMBDA w :
        IF ~IsCurrent(w, r) THEN Return(w, r, "stale") ELSE LegLoop(w, r))

\* lines 88-113 without the calls of lines 93-94
Opening_KeepTrails(world, r) ==
    Once(world, LAMBDA w :
        LET run == w.runs[r]
            first == run.journey[1]
            firstPoint == At(first.pathCoords, 0)
            initialZoom == Lookup(run.modeZooms, "car", Q(10, 1))
            narrated == run.labels /\ first.fromName # NoName
            place == << Do("setGlyph", [glyph |-> first.mode]),
                        Do("setLngLat", [marker |-> firstPoint]),
                        Do("jumpTo", Camera("jumpTo", firstPoint,
                                            Minus(initialZoom, Q(15, 10)), Num(0))) >>
            narrate == << Do("showLabel", [label |-> first.fromName, labelShown |-> TRUE]),
                          Do("easeTo", [zoom |-> Minus(initialZoom, Q(1, 1))]) >>
            placed == Calls(w, r, place)
            w0 == IF placed.exc # "none" THEN placed
                  ELSE [placed EXCEPT !.runs[r].atOpening = <<placed.view>>]
            w1 == IF narrated THEN Calls(w0, r, narrate) ELSE w0
        IN  IF w1.exc # "none" THEN Catch(w1, r)
            ELSE IF narrated THEN Suspend(w1, r, "openRead")
            ELSE LegLoop(w1, r))

\* lines 88-113: the opening
Opening(world, r) ==
    Once(world, LAMBDA w :
        LET run == w.runs[r]
            first == run.journey[1]
            firstPoint == At(first.pathCoords, 0)
            initialZoom == Lookup(run.modeZooms, "car", Q(10, 1))
            narrated == run.labels /\ first.fromName # NoName
            place == << Do("setGlyph", [glyph |-> first.mode]),
                        Do("setLngLat", [marker |-> firstPoint]),
                        Do("updateActiveTrail", [activeTrail |-> << >>]),
                        Do("updateCompletedTrail",
                           [completedTrail |-> << >>, completedBy |-> r]),
                        Do("jumpTo", Camera("jumpTo", firstPoint,
                                            Minus(initialZoom, Q(15, 10)), Num(0))) >>
            narrate == << Do("showLabel", [label |-> first.fromName, labelShown |-> TRUE]),
                          Do("easeTo", [zoom |-> Minus(initialZoom, Q(1, 1))]) >>
            placed == Calls(w, r, place)
            w0 == IF placed.exc # "none" THEN placed
                  ELSE [placed EXCEPT !.runs[r].atOpening = <<placed.view>>]
            w1 == IF narrated THEN Calls(w0, r, narrate) ELSE w0
        IN  IF w1.exc # "none" THEN Catch(w1, r)
            ELSE IF narrated THEN Suspend(w1, r, "openRead")
            ELSE LegLoop(w1, r))

\* lines 62-86 without the stopAnimation call of line 74
animateJourney_NoStop(world, in, does) ==
    Once(world, LAMBDA w :
        LET r == Len(w.runs) + 1
            w1 == MarkSuperseded(MarkCancelled(w, "start"))
            w2 == [w1 EXCEPT !.runs =
                      Append(@, [NewRun(w1.rid, in, does) EXCEPT !.pc = "running"])]
        IN  IF Len(in.journey) = 0
            THEN Return(onComplete(w2, r), r, "empty")
            ELSE Opening(w2, r))

\* lines 62-86 returning from an empty journey without a callback
animateJourney_Silent(world, in, does) ==
    Once(world, LAMBDA w :
        LET r == Len(w.runs) + 1
            w1 == stopAnimation(MarkSuperseded(MarkCancelled(w, "start")))
            w2 == [w1 EXCEPT !.runs =
                      Append(@, [NewRun(w1.rid, in, does) EXCEPT !.pc = "running"])]
        IN  IF Len(in.journey) = 0
            THEN Return(w2, r, "empty")
            ELSE Opening(w2, r))

\* lines 62-86
animateJourney(world, in, does) ==
    Once(world, LAMBDA w :
        LET r == Len(w.runs) + 1
            w1 == stopAnimation(MarkSuperseded(MarkCancelled(w, "start")))
            w2 == [w1 EXCEPT !.runs =
                      Append(@, [NewRun(w1.rid, in, does) EXCEPT !.pc = "running"])]
        IN  IF Len(in.journey) = 0
            THEN Return(onComplete(w2, r), r, "empty")
            ELSE Opening(w2, r))

(***************************************************************************)
(* The tasks of the event loop.                                            *)
(***************************************************************************)
Running(world, r) == Once(world, LAMBDA w : [w EXCEPT !.runs[r].pc = "running"])

\* the collaborator call of this task that throws, 0 for none
Fuses == IF plan.faulty THEN 0..MaxFuse ELSE {0}

Init ==
    /\ currentRunId = 0
    /\ animationFrameId = 0
    /\ rafQueue = {}
    /\ runs = << >>
    /\ view = EmptyView
    /\ log = << >>
    /\ stops = 0
    /\ plan \in Plans
    /\ geo = NoCall
    /\ stopRequested = FALSE
    /\ isAnimating = FALSE
    /\ handlePlay = "idle"

\* the application calls animateJourney
Start ==
    /\ Len(runs) < MaxRuns
    /\ \E fuse \in Fuses :
          \E w \in {animateJourney(World(fuse), Cyclic(plan.inputs, Len(runs) + 1),
                                   Cyclic(plan.completes, Len(runs) + 1))} :
              Becomes(w)
    /\ UNCHANGED <<stops, plan, geo, handlePlay>>

\* the application calls stopAnimation
Stop ==
    /\ stops < MaxStops
    /\ \E w \in {stopAnimation(MarkCancelled(World(0), "stop"))} : Becomes(w)
    /\ stops' = stops + 1
    /\ UNCHANGED <<plan, geo, handlePlay>>

\* the timer of the wait at which run r is suspended fires
TimerFires(r, pc) ==
    /\ runs[r].pc = pc
    /\ \E fuse \in Fuses :
          \E w \in {Running(World(fuse), r)} :
              \E v \in {CASE pc = "openRead" -> AfterOpenRead(w, r)
                          [] pc = "openFade" -> AfterOpenFade(w, r)
                          [] pc = "settle" -> AfterSettle(w, r)
                          [] pc = "arriveRead" -> AfterArriveRead(w, r)
                          [] pc = "arriveFade" -> AfterArriveFade(w, r)} :
                  Becomes(v)
    /\ UNCHANGED <<stops, plan, geo, handlePlay>>

OpenReadDone == \E r \in DOMAIN runs : TimerFires(r, "openRead")

OpenFadeDone == \E r \in DOMAIN runs : TimerFires(r, "openFade")

SettleDone == \E r \in DOMAIN runs : TimerFires(r, "settle")

ArriveReadDone == \E r \in DOMAIN runs : TimerFires(r, "arriveRead")

ArriveFadeDone == \E r \in DOMAIN runs : TimerFires(r, "arriveFade")

\* the browser delivers the pending frame callback of run r
Frame ==
    \E h \in rafQueue :
        /\ \E fuse \in Fuses :
              \E w \in {frame([World(fuse) EXCEPT !.raf = @ \ {h}], Owner(h))} :
                  Becomes(w)
        /\ UNCHANGED <<stops, plan, geo, handlePlay>>

Next ==
    \/ Start
    \/ Stop
    \/ OpenReadDone
    \/ OpenFadeDone
    \/ SettleDone
    \/ ArriveReadDone
    \/ ArriveFadeDone
    \/ Frame

Spec == Init /\ [][Next]_vars

\* the browser fires every timer and delivers every frame callback that
\* stays pending
FairSpec ==
    /\ Spec
    /\ WF_vars(OpenReadDone)
    /\ WF_vars(OpenFadeDone)
    /\ WF_vars(SettleDone)
    /\ WF_vars(ArriveReadDone)
    /\ WF_vars(ArriveFadeDone)
    /\ WF_vars(Frame)

(***************************************************************************)
(* The application (src/App.jsx): Play and Clear, over the director of     *)
(* part_000.  handlePlay passes animateJourney the settings and an         *)
(* onComplete; it passes no label hooks and no onError.                    *)
(***************************************************************************)
\* the run id is not advanced beyond this by a click of Play
MaxRunId == 4

AppInput(journey) ==
    [journey |-> journey, labels |-> FALSE, speeds |-> NoSettings,
     zooms |-> NoSettings, onError |-> FALSE]

\* a teleport to a place 0.0005 km away: the route is the two places
Nearby == AppInput(<<Leg("teleport", Short, NoName, NoName)>>)

\* a drive of 1 km, then a teleport
Outing ==
    AppInput(<<Leg("car", Road, NoName, NoName),
               Leg("teleport", Short, NoName, NoName)>>)

\* a walk to the place the traveller is at
Stay == AppInput(<<Leg("walk", OnePoint, NoName, NoName)>>)

AppPlans ==
    { Plan(<<Nearby, Stay>>, <<"setIsAnimating">>, FALSE),
      Plan(<<Stay, Outing>>, <<"setIsAnimating">>, FALSE),
      Plan(<<Outing, Nearby>>, <<"setIsAnimating">>, FALSE),
      Plan(<<Stay, Nearby>>, <<"setIsAnimating">>, TRUE) }

\* App.jsx lines 368-381: the leg's route is asked of the directions service
NeedsRoutes(in) ==
    \E k \in DOMAIN in.journey : in.journey[k].mode \notin {"plane", "teleport"}

\* App.jsx lines 354-355 and 333-334: the application clears the trails
ClearTrails(world) ==
    Once(world, LAMBDA w :
        [w EXCEPT !.view.activeTrail = << >>, !.view.completedTrail = << >>,
                  !.view.completedBy = 0])

\* App.jsx lines 396-411: handlePlay calls animateJourney
AppAnimate(world, in) ==
    Once(world, LAMBDA w : animateJourney(w, in, "setIsAnimating"))

AppInit ==
    /\ currentRunId = 0
    /\ animationFrameId = 0
    /\ rafQueue = {}
    /\ runs = << >>
    /\ view = EmptyView
    /\ log = << >>
    /\ stops = 0
    /\ plan \in AppPlans
    /\ geo = NoCall
    /\ stopRequested = FALSE
    /\ isAnimating = FALSE
    /\ handlePlay = "idle"

\* App.jsx lines 339-395: Play is clicked, a start and a destination being
\* chosen; with no route to ask for, handlePlay goes on to animateJourney
AppPlay ==
    /\ ~isAnimating
    /\ handlePlay = "idle"
    /\ Len(runs) < MaxRuns
    /\ currentRunId < MaxRunId
    /\ \E fuse \in Fuses :
          \E w \in {[ClearTrails(stopAnimation(MarkCancelled(World(fuse), "stop")))
                        EXCEPT !.app = TRUE]} :
              \E in \in {Cyclic(plan.inputs, Len(runs) + 1)} :
                  IF NeedsRoutes(in)
                  THEN Becomes(w) /\ handlePlay' = "routing"
                  ELSE Becomes(AppAnimate(w, in)) /\ handlePlay' = "idle"
    /\ UNCHANGED <<stops, plan, geo>>

\* App.jsx lines 379 and 396-411: the routes have arrived
AppRouted ==
    /\ handlePlay = "routing"
    /\ \E fuse \in Fuses :
          \E w \in {AppAnimate(World(fuse), Cyclic(plan.inputs, Len(runs) + 1))} :
              Becomes(w)
    /\ handlePlay' = "idle"
    /\ UNCHANGED <<stops, plan, geo>>

\* App.jsx lines 379 and 413-418: getDirections throws
AppRouteFails ==
    /\ handlePlay = "routing"
    /\ isAnimating' = FALSE
    /\ handlePlay' = "idle"
    /\ log' = << >>
    /\ UNCHANGED <<currentRunId, animationFrameId, rafQueue, runs, view, stops, plan,
                   geo, stopRequested>>

\* App.jsx lines 325-337 and 497: Clear is clicked
AppClear ==
    /\ ~isAnimating
    /\ handlePlay = "idle"
    /\ stops < MaxStops
    /\ \E w \in {[ClearTrails(stopAnimation(MarkCancelled(World(0), "stop")))
                     EXCEPT !.app = FALSE]} :
          Becomes(w)
    /\ stops' = stops + 1
    /\ UNCHANGED <<plan, geo, handlePlay>>

\* handlePlay passes no label hooks: of the director's waits only the one
\* before a leg is ever taken
AppNext ==
    \/ AppPlay
    \/ AppRouted
    \/ AppRouteFails
    \/ AppClear
    \/ SettleDone
    \/ Frame

AppSpec == AppInit /\ [][AppNext]_vars

\* the directions service answers or fails, and the browser fires every
\* timer and delivers every frame callback that stays pending
AppFairSpec ==
    /\ AppSpec
    /\ WF_vars(AppRouted \/ AppRouteFails)
    /\ WF_vars(SettleDone)
    /\ WF_vars(Frame)

(***************************************************************************)
(* The director of src/map/animate.js (lines 50-315): stopRequested in     *)
(* place of the run id.  Its runs, its view and its frames are kept in the *)
(* same variables; its operators carry the prefix Flag.                    *)
(***************************************************************************)
\* every suspended run that has not been invalidated is
FlagMarkCancelled(world, cause) ==
    Once(world, LAMBDA w :
        [w EXCEPT !.runs =
            [r \in DOMAIN w.runs |->
                IF w.runs[r].pc \in Suspended /\ w.runs[r].cancel = ""
                THEN [w.runs[r] EXCEPT !.cancel = cause]
                ELSE w.runs[r]]])

\* animate.js lines 50-56
FlagStopAnimation(world) ==
    Once(world, LAMBDA w :
        [w EXCEPT !.flag = TRUE,
                  !.raf = IF w.afid # 0 THEN @ \ {w.afid} ELSE @,
                  !.afid = 0])

\* animate.js lines 184-187
FlagCatch(world, r) ==
    Once(world, LAMBDA w :
        Return([FlagStopAnimation([w EXCEPT !.exc = "none"]) EXCEPT
                   !.runs[r].caught = <<w.exc, TRUE>>,
                   !.runs[r].cancel = IF @ = "" THEN "error" ELSE @],
               r, "error"))

\* animate.js line 182
FlagFinale(world, r) ==
    Once(world, LAMBDA w :
        LET w1 == onComplete(w, r)
        IN  IF w1.exc # "none" THEN FlagCatch(w1, r) ELSE Return(w1, r, "complete"))

\* animate.js lines 122-144: the head of the loop and the camera transition
FlagLegLoop(world, r) ==
    Once(world, LAMBDA w :
        LET run == w.runs[r]
            leg == run.journey[run.i + 1]
            w2 == Calls(w, r,
                    << Do("setGlyph", [glyph |-> leg.mode]),
                       Do("flyTo", Camera("flyTo", At(leg.pathCoords, 0),
                                          Lookup(run.modeZooms, leg.mode, Q(10, 1)),
                                          Lookup(MODE_PITCH, leg.mode, Q(40, 1)))) >>)
        IN  IF run.i >= Len(run.journey) THEN FlagFinale(w, r)
            ELSE IF w2.exc # "none" THEN FlagCatch(w2, r)
            ELSE Suspend(w2, r, "settle"))

\* animate.js lines 176-177
FlagAfterArriveRead(world, r) ==
    Once(world, LAMBDA w :
        LET w1 == Call(w, r, Do("hideLabel", [labelShown |-> FALSE]))
        IN  IF w1.exc # "none" THEN FlagCatch(w1, r)
            ELSE Suspend(w1, r, "arriveFade"))

\* animate.js lines 177-179
FlagAfterArriveFade(world, r) ==
    Once(world, LAMBDA w : FlagLegLoop([w EXCEPT !.runs[r].i = @ + 1], r))

\* animate.js lines 158-175: the leg is committed and its arrival narrated
FlagAfterLeg(world, r) ==
    Once(world, LAMBDA w :
        LET run == w.runs[r]
            leg == run.journey[run.i + 1]
            done == Append(run.completedLegsCoords, leg.pathCoords)
            commit == << Do("updateActiveTrail", [activeTrail |-> << >>]),
                         Do("updateCompletedTrail",
                            [completedTrail |-> done, completedBy |-> r]) >>
            narrate == << Do("showLabel", [label |-> leg.toName, labelShown |-> TRUE]) >>
            w1 == Calls([w EXCEPT !.runs[r].completedLegsCoords = done], r,
                        IF run.labels THEN commit \o narrate ELSE commit)
        IN  IF w.flag THEN Return(w, r, "stale")
            ELSE IF w1.exc # "none" THEN FlagCatch(w1, r)
            ELSE IF run.labels THEN Suspend(w1, r, "arriveRead")
            ELSE FlagLegLoop([w1 EXCEPT !.runs[r].i = @ + 1], r))

\* animate.js lines 193-215 and 313
FlagAnimateLeg(world, r) ==
    Once(world, LAMBDA w :
        LET run == w.runs[r]
            leg == run.journey[run.i + 1]
            path == leg.pathCoords
            speedBase == Lookup(run.modeSpeeds, leg.mode, Q(1, 1))
            l == [active |-> TRUE, path |-> path, totalDist |-> PathLength(path, 1),
                  REAL_SPEED |-> Times(speedBase, Q(2, 10)),
                  distanceCovered |-> Num(0),
                  currentPathIdx |-> 0, p1 |-> At(path, 0), p2 |-> At(path, 1),
                  segmentProgress |-> Num(0), activeTrail |-> <<At(path, 0)>>,
                  targetZoom |-> Lookup(run.modeZooms, leg.mode, Q(10, 1)),
                  targetPitch |-> Lookup(MODE_PITCH, leg.mode, Q(40, 1)),
                  finished |-> FALSE]
            w0 == [w EXCEPT !.runs[r].started = Append(@, run.i)]
            w1 == Call(SetLeg(w0, r, l), r,
                       Do("updateActiveTrail", [activeTrail |-> l.activeTrail]))
        IN  IF w1.exc # "none" THEN FlagCatch(w1, r)
            ELSE [RequestFrame(w1, r) EXCEPT !.runs[r].pc = "leg"])

\* animate.js lines 217-311: one frame callback
FlagFrame(world, r) ==
    Once(world, LAMBDA w :
        LET l == w.runs[r].leg
            moveDist == Times(l.REAL_SPEED, easeFactor(progressRatioAt(l)))
            l1 == Cross(Advance(l, moveDist))
            \* lines 252-253
            d == Calls(SetLeg(w, r, l1), r,
                    << Do("setLngLat", [marker |-> Last(l.path)]),
                       Do("updateActiveTrail", [activeTrail |-> l.path]) >>)
            \* lines 273-310
            l2 == [l1 EXCEPT !.p1 = At(l.path, l1.currentPathIdx),
                             !.p2 = At(l.path, l1.currentPathIdx + 1)]
            currentPos == lerp(l2.p1, l2.p2, l2.segmentProgress)
            leadPos == lerp(currentPos, l2.p2, Q(3, 10))
            m == Calls(SetLeg(w, r, l2), r,
                    << Do("setLngLat", [marker |-> currentPos]),
                       Do("updateActiveTrail",
                          [activeTrail |-> Append(l2.activeTrail, currentPos)]),
                       Do("jumpTo", Camera("jumpTo", leadPos, l2.targetZoom,
                                           l2.targetPitch)) >>)
        IN  IF w.flag THEN FlagAfterLeg(Resolve(w, r), r)
            ELSE IF l1.finished
                 THEN IF d.exc # "none" THEN Uncaught(d, r)
                      ELSE FlagAfterLeg(Resolve(d, r), r)
            ELSE IF l1.currentPathIdx >= Len(l.path) - 1
                 THEN FlagAfterLeg(Resolve(SetLeg(w, r, l1), r), r)
            ELSE IF {l1.currentPathIdx + 1, l1.currentPathIdx + 2} \ DOMAIN l.path # {}
                 THEN Uncaught(SetLeg(w, r, l2), r)
            ELSE IF m.exc # "none" THEN Uncaught(m, r)
            ELSE RequestFrame(m, r))

\* animate.js lines 115-116
FlagAfterOpenRead(world, r) ==
    Once(world, LAMBDA w :
        LET w1 == Call(w, r, Do("hideLabel", [labelShown |-> FALSE]))
        IN  IF w1.exc # "none" THEN FlagCatch(w1, r)
            ELSE Suspend(w1, r, "openFade"))

\* animate.js lines 117-119
FlagAfterOpenFade(world, r) ==
    Once(world, LAMBDA w :
        IF w.flag THEN Return(w, r, "stale") ELSE FlagLegLoop(w, r))

\* animate.js lines 94-119: the opening
FlagOpening(world, r) ==
    Once(world, LAMBDA w :
        LET run == w.runs[r]
            first == run.journey[1]
            firstPoint == At(first.pathCoords, 0)
            narrated == run.labels /\ first.fromName # NoName
            place == << Do("setGlyph", [glyph |-> first.mode]),
                        Do("setLngLat", [marker |-> firstPoint]),
                        Do("updateActiveTrail", [activeTrail |-> << >>]),
                        Do("updateCompletedTrail",
                           [completedTrail |-> << >>, completedBy |-> r]),
                        Do("jumpTo", Camera("jumpTo", firstPoint,
                                            Minus(Lookup(run.modeZooms, "car", Q(10, 1)),
                                                  Q(1, 1)), Num(0))) >>
            narrate == << Do("showLabel", [label |-> first.fromName, labelShown |-> TRUE]) >>
            w1 == Calls(w, r, IF narrated THEN place \o narrate ELSE place)
        IN  IF w1.exc # "none" THEN FlagCatch(w1, r)
            ELSE IF narrated THEN Suspend(w1, r, "openRead")
            ELSE IF w1.flag THEN Return(w1, r, "stale")
            ELSE FlagLegLoop(w1, r))

\* animate.js lines 69-92
FlagAnimateJourney(world, in, does) ==
    Once(world, LAMBDA w :
        LET r == Len(w.runs) + 1
            w1 == [FlagStopAnimation(MarkSuperseded(FlagMarkCancelled(w, "start")))
                      EXCEPT !.flag = FALSE]
            w2 == [w1 EXCEPT !.runs =
                      Append(@, [NewRun(0, in, does) EXCEPT !.pc = "running"])]
        IN  IF Len(in.journey) = 0
            THEN Return(onComplete(w2, r), r, "empty")
            ELSE FlagOpening(w2, r))

\* a journey of two legs of duplicate points, with labels
Tour ==
    Input(<<Leg("plane", Dense, "A", "B"), Leg("walk", Dense, NoName, "C")>>,
          TRUE, NoSettings, NoSettings)

\* what the application does with the director of animate.js
FlagPlans ==
    { Plan(<<Tour, Flight>>, <<"return">>, FALSE),
      Plan(<<Flight, Tour>>, <<"return">>, FALSE),
      Plan(<<Hop, Cruise>>, <<"return">>, FALSE),
      Plan(<<NoJourney, Tour>>, <<"return">>, FALSE) }

FlagInit ==
    /\ currentRunId = 0
    /\ animationFrameId = 0
    /\ rafQueue = {}
    /\ runs = << >>
    /\ view = EmptyView
    /\ log = << >>
    /\ stops = 0
    /\ plan \in FlagPlans
    /\ geo = NoCall
    /\ stopRequested = FALSE
    /\ isAnimating = FALSE
    /\ handlePlay = "idle"

\* the application calls animateJourney of animate.js
FlagStart ==
    /\ Len(runs) < MaxRuns
    /\ \E w \in {FlagAnimateJourney(World(0), Cyclic(plan.inputs, Len(runs) + 1),
                                    Cyclic(plan.completes, Len(runs) + 1))} :
          Becomes(w)
    /\ UNCHANGED <<stops, plan, geo, handlePlay>>

\* the application calls stopAnimation of animate.js
FlagStop ==
    /\ stops < MaxStops
    /\ \E w \in {FlagStopAnimation(FlagMarkCancelled(World(0), "stop"))} : Becomes(w)
    /\ stops' = stops + 1
    /\ UNCHANGED <<plan, geo, handlePlay>>

\* the timer of the wait at which run r is suspended fires
FlagTimerFires(r, pc) ==
    /\ runs[r].pc = pc
    /\ \E w \in {Running(World(0), r)} :
          \E v \in {CASE pc = "openRead" -> FlagAfterOpenRead(w, r)
                      [] pc = "openFade" -> FlagAfterOpenFade(w, r)
                      [] pc = "settle" -> FlagAnimateLeg(w, r)
                      [] pc = "arriveRead" -> FlagAfterArriveRead(w, r)
                      [] pc = "arriveFade" -> FlagAfterArriveFade(w, r)} :
              Becomes(v)
    /\ UNCHANGED <<stops, plan, geo, handlePlay>>

FlagOpenReadDone == \E r \in DOMAIN runs : FlagTimerFires(r, "openRead")

FlagOpenFadeDone == \E r \in DOMAIN runs : FlagTimerFires(r, "openFade")

FlagSettleDone == \E r \in DOMAIN runs : FlagTimerFires(r, "settle")

FlagArriveReadDone == \E r \in DOMAIN runs : FlagTimerFires(r, "arriveRead")

FlagArriveFadeDone == \E r \in DOMAIN runs : FlagTimerFires(r, "arriveFade")

\* the browser delivers the pending frame callback of run r
FlagFrameDelivered ==
    \E h \in rafQueue :
        /\ \E w \in {FlagFrame([World(0) EXCEPT !.raf = @ \ {h}], Owner(h))} :
              Becomes(w)
        /\ UNCHANGED <<stops, plan, geo, handlePlay>>

FlagNext ==
    \/ FlagStart
    \/ FlagStop
    \/ FlagOpenReadDone
    \/ FlagOpenFadeDone
    \/ FlagSettleDone
    \/ FlagArriveReadDone
    \/ FlagArriveFadeDone
    \/ FlagFrameDelivered

FlagSpec == FlagInit /\ [][FlagNext]_vars

(***************************************************************************)
(* The director of src/unnamed/part_001 (lines 1-229): one frame loop for  *)
(* the whole journey.  A run is the closure of one animateJourney call;    *)
(* its operators carry the prefix Loop.                                    *)
(***************************************************************************)
\* most calls of onComplete by one run
MaxCompletes == 2

\* part_001 lines 29-37
LOOP_MODE_PITCH ==
    [walk |-> Q(50, 1), bike |-> Q(45, 1), car |-> Q(40, 1), bus |-> Q(40, 1),
     train |-> Q(35, 1), plane |-> Num(0), teleport |-> Q(40, 1)]

\* part_001 line 5: nothing assigns it
isPaused == FALSE

\* three points, 1 km from one to the next
Way == <<Pt(0), Pt(FP), Pt(2 * FP)>>

\* a leg whose route has no points
NoPath == << >>

\* two legs with routes
Trip ==
    Input(<<Leg("car", Road, NoName, NoName), Leg("train", Way, NoName, NoName)>>,
          FALSE, NoSettings, NoSettings)

\* a leg without a route between two legs with routes
Gap ==
    Input(<<Leg("car", Road, NoName, NoName), Leg("bus", NoPath, NoName, NoName),
            Leg("train", Road, NoName, NoName)>>,
          FALSE, NoSettings, NoSettings)

\* a leg of duplicate points and a leg that is already where it goes
Dots ==
    Input(<<Leg("plane", Dense, NoName, NoName), Leg("car", OnePoint, NoName, NoName)>>,
          FALSE, NoSettings, NoSettings)

\* a journey whose first leg has no route
Lost ==
    Input(<<Leg("car", NoPath, NoName, NoName), Leg("car", Road, NoName, NoName)>>,
          FALSE, NoSettings, NoSettings)

LoopPlans ==
    { Plan(<<Trip, Dots>>, <<"return">>, FALSE),
      Plan(<<Gap, Trip>>, <<"return">>, FALSE),
      Plan(<<Dots, Gap>>, <<"return">>, FALSE),
      Plan(<<Lost, Trip>>, <<"return">>, FALSE),
      Plan(<<Trip>>, <<"throw">>, FALSE) }

\* the closure of one animateJourney call (part_001 lines 69-106)
LoopRun(in, does) ==
    [journey |-> in.journey, onCompleteDoes |-> does,
     modeZooms |-> Merge(DEFAULT_MODE_ZOOMS, in.zooms),
     modeSpeeds |-> Merge(DEFAULT_MODE_SPEEDS, in.speeds),
     legIndex |-> 0, pointIndex |-> 0, progress |-> Num(0),
     completedLegsCoords |-> << >>,
     currentLegPath |-> << >>, currentMode |-> "", activeTrailCoords |-> << >>,
     \* the handle of the last frame the run requested, 0 for none
     handle |-> 0,
     \* the legs onLegStart was called with, in the order of the calls
     legStarts |-> << >>,
     \* the calls of onComplete, and the frames pending at the last of them
     nComplete |-> 0, atComplete |-> {},
     \* what the current frame callback did last: "" | "return" | "throw"
     out |-> ""]

LoopWorld ==
    [afid |-> animationFrameId, raf |-> rafQueue, runs |-> runs, view |-> view]

LoopBecomes(w) ==
    /\ animationFrameId' = w.afid
    /\ rafQueue' = w.raf
    /\ runs' = w.runs
    /\ view' = w.view

\* a call on the map, the marker or the trails: it sets fields of the view
LoopSet(world, set) ==
    Once(world, LAMBDA w :
        [w EXCEPT !.view = [f \in DOMAIN w.view |->
                               IF f \in DOMAIN set THEN set[f] ELSE w.view[f]]])

\* part_001 lines 49-54
LoopStopAnimation(world) ==
    Once(world, LAMBDA w :
        IF w.afid # 0 THEN [w EXCEPT !.raf = @ \ {w.afid}, !.afid = 0] ELSE w)

\* animationFrameId = requestAnimationFrame(frame)
LoopRequestFrame(world, r) ==
    Once(world, LAMBDA w :
        LET h == IF w.runs[r].handle = 2 * r - 1 THEN 2 * r ELSE 2 * r - 1
        IN  [w EXCEPT !.raf = @ \cup {h}, !.afid = h, !.runs[r].handle = h])

\* part_001 lines 212-229
updateCamera(world, center, mode, isRotating) ==
    Once(world, LAMBDA w :
        LET cam == w.view.camera
            targetPitch == Lookup(LOOP_MODE_PITCH, mode, Q(40, 1))
            newPitch == Plus(cam.pitch, Times(Minus(targetPitch, cam.pitch), Q(1, 100)))
            turn == {Abs(x - y) : x \in newPitch, y \in cam.pitch}
        IN  LoopSet(w, [camera |->
                [op |-> "jumpTo", center |-> center, zoom |-> cam.zoom,
                 pitch |-> IF ~isRotating /\ Gt(turn, Q(1, 10)) THEN newPitch
                           ELSE cam.pitch,
                 bearing |-> cam.bearing]]))

\* part_001 lines 124-133: the journey is over
LoopFinish(world, r) ==
    Once(world, LAMBDA w :
        LET w1 == LoopStopAnimation(w)
            cam == w1.view.camera
            w2 == LoopSet(w1, [camera |-> [op |-> "flyTo", center |-> cam.center,
                                           zoom |-> Q(3, 1), pitch |-> Num(0),
                                           bearing |-> Num(0)]])
        IN  [w2 EXCEPT !.runs[r].nComplete = @ + 1,
                       !.runs[r].atComplete = w2.raf,
                       !.runs[r].out = IF w.runs[r].onCompleteDoes = "throw"
                                       THEN "throw" ELSE "return"])

\* part_001 lines 142-161: the next leg starts
LoopNextLeg(world, r) ==
    Once(world, LAMBDA w :
        LET u == w.runs[r]
            leg == u.journey[u.legIndex + 1]
            path == leg.pathCoords
            cam == w.view.camera
        IN  LoopSet([w EXCEPT !.runs[r].currentLegPath = path,
                              !.runs[r].currentMode = leg.mode,
                              !.runs[r].legStarts = Append(@, u.legIndex),
                              !.runs[r].pointIndex = 0,
                              !.runs[r].progress = Num(0),
                              !.runs[r].activeTrailCoords = <<At(path, 0)>>],
                    [glyph |-> leg.mode, activeTrail |-> <<At(path, 0)>>,
                     camera |-> [op |-> "flyTo", center |-> At(path, 0),
                                 zoom |-> Lookup(u.modeZooms, leg.mode, Q(10, 1)),
                                 pitch |-> Lookup(LOOP_MODE_PITCH, leg.mode, Q(40, 1)),
                                 bearing |-> cam.bearing]]))

RECURSIVE LoopWhile(_, _, _, _)
\* part_001 lines 118-192: the while loop, from its test on
LoopWhile(world, r, movesProcessed, isRotating) ==
    Once(world, LAMBDA w :
        LET u == w.runs[r]
            path == u.currentLegPath
            p1 == At(path, u.pointIndex)
            p2 == At(path, u.pointIndex + 1)
            \* lines 123-127
            done == Append(u.completedLegsCoords, path)
            e == LoopSet([w EXCEPT !.runs[r].completedLegsCoords = done,
                                   !.runs[r].legIndex = @ + 1],
                         [completedTrail |-> done])
            \* lines 163-192
            dist == getDistance(p1, p2)
            speed == Lookup(u.modeSpeeds, u.currentMode, Q(1, 1))
            fractionStep == Div(Times(speed, Q(5, 10)), dist)
            progress == Plus(u.progress, fractionStep)
            reached == Append(u.activeTrailCoords, p2)
            currentPos == lerp(p1, p2, progress)
        IN  IF movesProcessed >= 20 THEN w
            ELSE IF u.pointIndex + 2 \notin DOMAIN path
                 THEN IF e.runs[r].legIndex >= Len(u.journey)
                      THEN LoopFinish(e, r)
                      ELSE IF Len(u.journey[e.runs[r].legIndex + 1].pathCoords) = 0
                      THEN LoopWhile([e EXCEPT !.runs[r].legIndex = @ + 1], r,
                                     movesProcessed, isRotating)
                      ELSE LoopNextLeg(e, r)
            ELSE IF Le(dist, Q(5, 10000))
                 THEN LoopWhile([w EXCEPT !.runs[r].pointIndex = @ + 1,
                                          !.runs[r].progress = Num(0)], r,
                                movesProcessed + 1, isRotating)
            ELSE IF Ge(progress, Q(1, 1))
                 THEN LoopSet([w EXCEPT !.runs[r].pointIndex = @ + 1,
                                        !.runs[r].progress = Num(0),
                                        !.runs[r].activeTrailCoords = reached],
                              [activeTrail |-> reached])
            ELSE updateCamera(
                     LoopSet([w EXCEPT !.runs[r].progress = progress],
                             [activeTrail |-> Append(u.activeTrailCoords, currentPos),
                              marker |-> currentPos]),
                     currentPos, u.currentMode, isRotating))

\* part_001 lines 108-205: one frame callback
LoopFrame(world, r, isRotating) ==
    Once(world, LAMBDA w :
        LET w1 == LoopWhile([w EXCEPT !.runs[r].out = ""], r, 0, isRotating)
            u == w1.runs[r]
            finalP == At(u.currentLegPath, u.pointIndex)
            \* lines 194-198
            w2 == IF u.pointIndex < Len(u.currentLegPath) /\ u.progress = Num(0)
                  THEN updateCamera(LoopSet(w1, [marker |-> finalP]), finalP,
                                    u.currentMode, isRotating)
                  ELSE w1
        IN  IF isPaused THEN LoopRequestFrame(w, r)
            ELSE IF u.out = "return" THEN w1
            \* lines 200-205
            ELSE IF u.out = "throw" THEN LoopRequestFrame(LoopStopAnimation(w1), r)
            ELSE LoopRequestFrame(w2, r))

\* part_001 lines 66-106 and 207
LoopAnimateJourney(world, in, does) ==
    Once(world, LAMBDA w :
        LET r == Len(w.runs) + 1
            w1 == LoopStopAnimation(w)
            w2 == [w1 EXCEPT !.runs = Append(@, LoopRun(in, does))]
            first == in.journey[1]
            currentCoords == At(first.pathCoords, 0)
            cam == w2.view.camera
            w3 == LoopSet([w2 EXCEPT !.runs[r].currentLegPath = first.pathCoords,
                                     !.runs[r].currentMode = first.mode,
                                     !.runs[r].legStarts = <<0>>,
                                     !.runs[r].activeTrailCoords = <<currentCoords>>],
                          [glyph |-> first.mode, marker |-> currentCoords,
                           camera |-> [op |-> "flyTo", center |-> currentCoords,
                                       zoom |-> Lookup(w2.runs[r].modeZooms, first.mode,
                                                       Q(10, 1)),
                                       pitch |-> Lookup(LOOP_MODE_PITCH, first.mode,
                                                        Q(40, 1)),
                                       bearing |-> Num(0)]])
        IN  IF Len(in.journey) = 0 \/ Len(in.journey[1].pathCoords) = 0
            THEN [w2 EXCEPT !.runs[r].nComplete = 1, !.runs[r].atComplete = w2.raf,
                            !.runs[r].out = "return"]
            ELSE LoopRequestFrame(w3, r))

LoopInit ==
    /\ currentRunId = 0
    /\ animationFrameId = 0
    /\ rafQueue = {}
    /\ runs = << >>
    /\ view = EmptyView
    /\ log = << >>
    /\ stops = 0
    /\ plan \in LoopPlans
    /\ geo = NoCall
    /\ stopRequested = FALSE
    /\ isAnimating = FALSE
    /\ handlePlay = "idle"

\* the application calls animateJourney of part_001
LoopStart ==
    /\ Len(runs) < MaxRuns
    /\ \E w \in {LoopAnimateJourney(LoopWorld, Cyclic(plan.inputs, Len(runs) + 1),
                                    Cyclic(plan.completes, Len(runs) + 1))} :
          LoopBecomes(w)
    /\ UNCHANGED <<currentRunId, log, stops, plan, geo, stopRequested, isAnimating,
                 handlePlay>>

\* the application calls stopAnimation of part_001
LoopStop ==
    /\ stops < MaxStops
    /\ \E w \in {LoopStopAnimation(LoopWorld)} : LoopBecomes(w)
    /\ stops' = stops + 1
    /\ UNCHANGED <<currentRunId, log, plan, geo, stopRequested, isAnimating,
                 handlePlay>>

\* the browser delivers a pending frame callback
LoopFrameDelivered ==
    \E h \in rafQueue, isRotating \in BOOLEAN :
        /\ runs[Owner(h)].nComplete < MaxCompletes
        /\ \E w \in {LoopFrame([LoopWorld EXCEPT !.raf = @ \ {h}], Owner(h),
                               isRotating)} :
              LoopBecomes(w)
        /\ UNCHANGED <<currentRunId, log, stops, plan, geo, stopRequested, isAnimating,
                 handlePlay>>

LoopNext ==
    \/ LoopStart
    \/ LoopStop
    \/ LoopFrameDelivered

LoopSpec == LoopInit /\ [][LoopNext]_vars

(***************************************************************************)
(* lerp on its own: a caller hands it two points and a fraction.           *)
(***************************************************************************)
\* coordinates and fractions of the calls, in units of 1/FP
Coordinates == {0 - 2 * FP, 0, FP, 4 * FP}

Points == {<<Num(x), Num(0)>> : x \in Coordinates} \cup {<<Num(FP), Num(y)>> : y \in Coordinates}

Fractions == {Q(0 - 1, 1), Num(0), Q(3, 10), Q(1, 2), Q(1, 1), Q(2, 1)}

GeoInit ==
    /\ currentRunId = 0
    /\ animationFrameId = 0
    /\ rafQueue = {}
    /\ runs = << >>
    /\ view = EmptyView
    /\ log = << >>
    /\ stops = 0
    /\ plan = Plan(<<NoJourney>>, <<"return">>, FALSE)
    /\ stopRequested = FALSE
    /\ isAnimating = FALSE
    /\ handlePlay = "idle"
    /\ \E p1 \in Points, p2 \in Points, t \in Fractions :
          geo = [p1 |-> p1, p2 |-> p2, t |-> t, out |-> << >>]

\* the call returns
Interpolate ==
    /\ geo.out = << >>
    /\ geo' = [geo EXCEPT !.out = <<lerp(geo.p1, geo.p2, geo.t)>>]
    /\ UNCHANGED <<currentRunId, animationFrameId, rafQueue, runs, view, log, stops,
                   plan, stopRequested, isAnimating, handlePlay>>

GeoNext == Interpolate

GeoSpec == GeoInit /\ [][GeoNext]_vars

(***************************************************************************)
(* The properties.                                                         *)
(***************************************************************************)
RunIds == 1..MaxRuns

\* the leg paths of the first k legs of a journey
Paths(journey, k) == [n \in 1..k |-> journey[n].pathCoords]

\* C1: a run that was suspended (at a wait or at a pending frame) when a
\* later animateJourney call was made makes no view-state call afterwards,
\* and neither its onComplete nor its onError is invoked afterwards.
C1_SupersededRunIsSilent ==
    \A r \in DOMAIN runs :
        runs[r].superseded =>
            runs[r].late \cap {"view", "complete", "error"} = {}

\* a superseded run was resumed by its timer and returned, and the run that
\* superseded it has drawn
C1_Witness ==
    \E r \in DOMAIN runs :
        /\ runs[r].superseded
        /\ runs[r].cancel = "start"
        /\ runs[r].end = "stale"
        /\ r + 1 \in DOMAIN runs
        /\ "view" \in runs[r + 1].acts

\* C2: a run that was suspended when the application called stopAnimation,
\* and after which no run was started, makes no view-state call, requests no
\* frame and invokes neither onComplete nor onError afterwards, and has no
\* frame callback pending.
C2_StoppedRunIsSilent ==
    \A r \in DOMAIN runs :
        (runs[r].cancel = "stop" /\ ~runs[r].superseded) =>
            /\ runs[r].late \cap {"view", "frame", "complete", "error"} = {}
            /\ runs[r].handle \notin rafQueue

\* a stopped run was resumed by its timer and returned
C2_Witness ==
    \E r \in DOMAIN runs :
        /\ runs[r].cancel = "stop"
        /\ ~runs[r].superseded
        /\ runs[r].end = "stale"
        /\ "view" \in runs[r].acts

\* the run has been stopped, superseded or invalidated, or a call failed
Disturbed(r) ==
    \/ runs[r].cancel # ""
    \/ runs[r].superseded
    \/ runs[r].caught # << >>
    \/ runs[r].frameThrew
    \/ currentRunId # runs[r].myRunId

\* onComplete was not called twice, and when it was called every leg had
\* been committed and published and the label the run narrates with was
\* hidden
CompletedInOrder(r) ==
    /\ runs[r].nComplete <= 1
    /\ (runs[r].nComplete = 1 /\ runs[r].journey # << >>) =>
          /\ runs[r].atComplete[1].legs = Len(runs[r].journey)
          /\ runs[r].atComplete[1].completedTrail =
                 Paths(runs[r].journey, Len(runs[r].journey))
          /\ runs[r].labels => ~runs[r].atComplete[1].labelShown

\* C3: for a non-empty journey whose run is not stopped or superseded and in
\* which no collaborator call fails, onComplete is invoked exactly once,
\* after every leg has been committed and the last narration has ended.
C3_CompletesOnce ==
    \A r \in RunIds :
        /\ [](r \in DOMAIN runs => CompletedInOrder(r))
        /\ [](r \in DOMAIN runs /\ runs[r].journey # << >>
                => <>(r \in DOMAIN runs /\ (runs[r].nComplete = 1 \/ Disturbed(r))))

\* C4: a call with an empty journey invokes onComplete once before it
\* returns, makes no view-state call, schedules no frame and no timer, and
\* invokes neither onLegStart nor onError.
C4_EmptyJourney ==
    \A r \in DOMAIN runs :
        runs[r].journey = << >> =>
            /\ runs[r].pc = "done"
            /\ runs[r].nComplete = 1
            /\ runs[r].acts = {"complete"}
            /\ runs[r].nError = 0
            /\ runs[r].legStarts = << >>
            /\ runs[r].handle = 0

\* a call with an empty journey was made after an earlier run had drawn
C4_Witness ==
    \E r \in DOMAIN runs :
        /\ runs[r].journey = << >>
        /\ runs[r].end = "empty"
        /\ r > 1
        /\ view.glyph # ""

\* C5: by the time a leg is handed to animateLeg, onLegStart has been
\* invoked once for it and for every leg before it, in journey order.
C5_LegStartPerLeg ==
    \A r \in DOMAIN runs : runs[r].legStarts = runs[r].started

\* C6: when a collaborator call of the director throws while the run is
\* current, the catch advances the run id and clears the frame handle,
\* onError is invoked once, onComplete is not invoked, and the run has
\* returned, stale, with no frame pending and nothing done after the catch.
C6_DirectorFailureReported ==
    \A r \in DOMAIN runs :
        runs[r].caught = <<"collaborator", TRUE>> =>
            /\ runs[r].handled[2].rid = runs[r].handled[1].rid + 1
            /\ runs[r].handled[2].afid = 0
            /\ currentRunId # runs[r].myRunId
            /\ runs[r].nError = 1
            /\ runs[r].nComplete = 0
            /\ runs[r].pc = "done"
            /\ runs[r].handle \notin rafQueue
            /\ runs[r].late = {}

\* a collaborator call threw in the sequence of a leg
C6_Witness ==
    \E r \in DOMAIN runs :
        /\ runs[r].caught = <<"collaborator", TRUE>>
        /\ runs[r].started # << >>
        /\ runs[r].end = "error"

\* C7: when a collaborator call throws inside a frame callback of a current
\* run, onError is invoked once and the run has returned.
C7_FrameFailureReported ==
    \A r \in DOMAIN runs :
        runs[r].frameThrew =>
            /\ runs[r].nError = 1
            /\ runs[r].nComplete = 0
            /\ runs[r].pc = "done"

\* C8: when an exception reaches the catch of a run that is no longer
\* current, onError is not invoked, onComplete is not invoked again, and the
\* catch leaves the run id, the frame handle and the pending frames alone.
C8_StaleFailureSwallowed ==
    \A r \in DOMAIN runs :
        (runs[r].caught # << >> /\ ~runs[r].caught[2]) =>
            /\ runs[r].handled[1] = runs[r].handled[2]
            /\ runs[r].nError = 0
            /\ runs[r].nComplete <= 1
            /\ runs[r].end = "swallowed"

\* the onComplete of a run started a newer run and threw
C8_Witness ==
    \E r \in DOMAIN runs :
        /\ runs[r].caught = <<"callback", FALSE>>
        /\ r + 1 \in DOMAIN runs
        /\ runs[r + 1].myRunId = runs[r].handled[2].rid

\* the runs whose frame loop is live: a frame callback is pending and the
\* run is current
LiveLoops ==
    {r \in DOMAIN runs :
        /\ runs[r].leg.active
        /\ runs[r].handle \in rafQueue
        /\ runs[r].myRunId = currentRunId}

\* C9: at most one frame loop is live over all runs, and in each run the
\* legs are handed to animateLeg in journey order, each after the one before
\* it has resolved.
C9_OneLoopAtATime ==
    /\ Cardinality(LiveLoops) <= 1
    /\ \A r \in DOMAIN runs :
          /\ runs[r].started = [k \in 1..Len(runs[r].started) |-> k - 1]
          /\ Len(runs[r].started) - runs[r].resolved \in {0, 1}
          /\ runs[r].leg.active => Len(runs[r].started) = runs[r].resolved + 1

\* the second leg of a run is in its frame loop while an earlier run is
\* still suspended
C9_Witness ==
    \E r \in LiveLoops :
        /\ Len(runs[r].started) = 2
        /\ \E q \in DOMAIN runs : q < r /\ runs[q].pc \in Suspended

\* C10: the completed trail on the map is always the paths of the first k
\* legs of the journey of the run that published it, k being the number of
\* legs that run has committed (one short of it if a call failed during the
\* commit); a suspended current run has published its own trail; and when
\* onComplete is called k is the number of legs of the journey.
C10_CompletedTrail ==
    /\ view.completedBy # 0 =>
          LET run == runs[view.completedBy]
              k == Len(view.completedTrail)
          IN  /\ k <= Len(run.journey)
              /\ view.completedTrail = Paths(run.journey, k)
              /\ run.completedLegsCoords = Paths(run.journey, Len(run.completedLegsCoords))
              /\ IF run.caught = << >> THEN k = Len(run.completedLegsCoords)
                 ELSE k \in {Len(run.completedLegsCoords), Len(run.completedLegsCoords) - 1}
    /\ \A r \in DOMAIN runs :
          /\ (runs[r].pc \in Suspended /\ runs[r].myRunId = currentRunId)
                => view.completedBy = r
          /\ (runs[r].nComplete > 0 /\ runs[r].journey # << >>) =>
                /\ runs[r].atComplete[1].completedBy = r
                /\ runs[r].atComplete[1].completedTrail =
                       Paths(runs[r].journey, Len(runs[r].journey))

\* a second run has completed a journey of two legs after the first run had
\* committed legs of its own
C10_Witness ==
    \E r \in DOMAIN runs :
        /\ r > 1
        /\ runs[r - 1].completedLegsCoords # << >>
        /\ runs[r].nComplete = 1
        /\ view.completedBy = r
        /\ Len(view.completedTrail) = 2

\* where a suspended run is in the sequence opening, then per leg camera
\* transition and pause, leg animation, arrival narration, then finale,
\* told by its counters: the legs handed to animateLeg, resolved, committed
PhaseOrder(r) ==
    LET run == runs[r]
        legs == <<Len(run.started), run.resolved, Len(run.completedLegsCoords)>>
    IN  /\ run.pc \in {"openRead", "openFade"} => run.i = 0 /\ legs = <<0, 0, 0>>
        /\ run.pc = "settle" => legs = <<run.i, run.i, run.i>>
        /\ run.pc = "leg" => legs = <<run.i + 1, run.i, run.i>>
        /\ run.pc \in {"arriveRead", "arriveFade"} =>
              legs = <<run.i + 1, run.i + 1, run.i + 1>>
        /\ (run.nComplete > 0 /\ run.journey # << >>) =>
              /\ run.atComplete[1].legs = Len(run.journey)
              /\ run.resolved = Len(run.journey)

C13_StopIdempotent ==
    LET w == World(0)
        once == stopAnimation(w)
        twice == stopAnimation(once)
    IN  /\ \A r \in DOMAIN runs : ~IsCurrent(once, r) /\ ~IsCurrent(twice, r)
        /\ once.afid = 0 /\ once.raf = {}
        /\ once.view = view /\ once.runs = runs /\ once.log = << >>
        /\ [twice EXCEPT !.rid = once.rid] = once
        /\ ((\A r \in DOMAIN runs : ~IsCurrent(w, r)) /\ rafQueue = {}) =>
              [once EXCEPT !.rid = w.rid, !.afid = w.afid] = w

\* the application has called stopAnimation while a frame was pending, and
\* the frame was cancelled
C13_Witness ==
    /\ stops = 1
    /\ rafQueue = {}
    /\ \E r \in DOMAIN runs :
          /\ runs[r].cancel = "stop"
          /\ runs[r].pc = "leg"
          /\ runs[r].handle # 0

\* C14: currentRunId never decreases; a stopAnimation call of the
\* application adds one to it and every animateJourney call makes it larger
\* and captures the new value; a run that is stale stays stale; the ids of
\* the runs are distinct and none is ahead of currentRunId, and at most one
\* run is current.
C14_RunIdMonotone ==
    /\ [][/\ currentRunId' >= currentRunId
          /\ stops' # stops => currentRunId' = currentRunId + 1
          /\ \A r \in DOMAIN runs' \ DOMAIN runs :
                runs'[r].myRunId > currentRunId
          /\ \A r \in DOMAIN runs :
                /\ runs'[r].myRunId = runs[r].myRunId
                /\ runs[r].myRunId # currentRunId =>
                      runs'[r].myRunId # currentRunId']_vars
    /\ [](/\ \A r \in DOMAIN runs : runs[r].myRunId <= currentRunId
          /\ \A r, q \in DOMAIN runs :
                r # q => runs[r].myRunId # runs[q].myRunId
          /\ Cardinality({r \in DOMAIN runs :
                            runs[r].myRunId = currentRunId}) <= 1)

\* two runs have been started and stopAnimation was called between them
C14_Witness ==
    /\ Len(runs) = 2
    /\ stops = 1
    /\ runs[1].cancel = "stop"
    /\ runs[2].myRunId = 3
    /\ currentRunId = 3

IsPrefix(a, b) == Len(a) <= Len(b) /\ a = SubSeq(b, 1, Len(a))

\* the locals of the leg that run r is animating
LegOf(r) == runs[r].leg

\* C15: the activeTrail of animateLeg only grows by appending and is a
\* prefix of the path of the leg, and the active trail on the map while the
\* leg is animated is a prefix of the path followed by at most one further
\* point, also for paths with duplicate consecutive points.
C15_ActiveTrailGrows ==
    /\ [][\A r \in DOMAIN runs :
            (LegOf(r).active /\ runs'[r].leg.active /\ runs'[r].i = runs[r].i)
                => IsPrefix(LegOf(r).activeTrail, runs'[r].leg.activeTrail)]_vars
    /\ [](\A r \in DOMAIN runs :
            LegOf(r).active =>
                /\ LegOf(r).activeTrail # << >>
                /\ IsPrefix(LegOf(r).activeTrail, LegOf(r).path)
                /\ (runs[r].pc = "leg" /\ runs[r].myRunId = currentRunId) =>
                      \/ IsPrefix(view.activeTrail, LegOf(r).path)
                      \/ /\ view.activeTrail # << >>
                         /\ IsPrefix(SubSeq(view.activeTrail, 1,
                                            Len(view.activeTrail) - 1),
                                     LegOf(r).path))

\* a leg of duplicate points is some frames on: the trail on the map is
\* the first point of the path and the point the marker is at
C15_Witness ==
    \E r \in DOMAIN runs :
        /\ LegOf(r).active
        /\ runs[r].pc = "leg"
        /\ runs[r].myRunId = currentRunId
        /\ LegOf(r).currentPathIdx = 3
        /\ view.activeTrail = <<LegOf(r).path[1], LegOf(r).path[4]>>

\* C16: at every frame that places the marker by interpolation, the
\* marker is the interpolation of path[pathIndex] and path[pathIndex+1] with
\* 0 <= pathIndex <= path.length - 2 and a fraction in [0, 1): the locals
\* the frame interpolates with are such an index and such a fraction, and
\* the marker of the current run is a point with two numbers.
C16_MarkerOnSegment ==
    \A r \in DOMAIN runs :
        (LegOf(r).active /\ runs[r].pc = "leg") =>
            /\ LegOf(r).currentPathIdx \in 0..(Len(LegOf(r).path) - 2)
            /\ LegOf(r).p1 = At(LegOf(r).path, LegOf(r).currentPathIdx)
            /\ LegOf(r).p2 = At(LegOf(r).path, LegOf(r).currentPathIdx + 1)
            /\ Ge(LegOf(r).segmentProgress, Num(0))
            /\ Lt(LegOf(r).segmentProgress, Q(1, 1))
            /\ (runs[r].myRunId = currentRunId /\ ~runs[r].frameThrew) =>
                  /\ ~IsNaN(view.marker[1])
                  /\ ~IsNaN(view.marker[2])

\* leg k (from 0) of run r has a path of exactly one point and was handed to
\* animateLeg
OnePointLeg(r, k) ==
    /\ \E n \in 1..Len(runs[r].started) : runs[r].started[n] = k
    /\ Len(runs[r].journey[k + 1].pathCoords) = 1

\* C17: a leg whose path has exactly one point completes without a frame
\* being requested or run for it, and the director treats it as a finished
\* leg: its path is appended to the completed legs and the run goes on to
\* the arrival, the next leg or the finale.
C17_OnePointLeg ==
    \A r \in DOMAIN runs :
        /\ LegOf(r).active => Len(LegOf(r).path) # 1
        /\ \A k \in 0..(Len(runs[r].journey) - 1) :
              OnePointLeg(r, k) =>
                  /\ runs[r].resolved >= k + 1
                  /\ Len(runs[r].completedLegsCoords) >= k + 1
                  /\ runs[r].completedLegsCoords[k + 1] =
                         runs[r].journey[k + 1].pathCoords
                  /\ runs[r].i = k => runs[r].pc \notin {"settle", "leg"}
                  /\ runs[r].i = k => runs[r].handle \notin rafQueue

\* the one-point first leg of a run is committed and the run, which has
\* requested no frame, is in the arrival of that leg
C17_Witness ==
    \E r \in DOMAIN runs :
        /\ OnePointLeg(r, 0)
        /\ runs[r].myRunId = currentRunId
        /\ runs[r].i = 0
        /\ runs[r].pc = "arriveRead"
        /\ runs[r].handle = 0
        /\ rafQueue = {}
        /\ view.completedTrail = <<runs[r].journey[1].pathCoords>>

\* the speed configured for the mode of the leg that run r is at: the
\* merged settings of lines 77-78, before the fallback of line 128
ConfiguredSpeed(r) ==
    runs[r].modeSpeeds[runs[r].journey[runs[r].i + 1].mode]

\* C18: a leg whose mode has a configured speed of zero or less is
\* instantly complete: no frame is requested for it, so a leg that is in
\* its frame loop has a configured speed above zero.
C18_NoSpeedNoFrames ==
    \A r \in DOMAIN runs :
        (LegOf(r).active /\ runs[r].pc = "leg") => Gt(ConfiguredSpeed(r), Num(0))

\* the path of the leg of run r whose promise was resolved last
ResolvedPath(r) == runs[r].journey[runs[r].resolved].pathCoords

\* C19: when animateLeg completes in a run that is still current, for a
\* path of at least two points that it animated, the marker is at the last
\* point of the path and the active trail on the map is the whole path.
C19_LegEndsAtLastPoint ==
    \A r \in DOMAIN runs :
        (/\ runs[r].atResolve # << >>
         /\ runs[r].atResolve[1].current
         /\ runs[r].atResolve[1].framed
         /\ Len(ResolvedPath(r)) >= 2) =>
            /\ runs[r].atResolve[1].marker = Last(ResolvedPath(r))
            /\ runs[r].atResolve[1].activeTrail = ResolvedPath(r)

\* run r, undisturbed, is in the frame loop of a leg: the leg has passed
\* the guards of lines 199-209, so its length and its speed are positive
InFrameLoop(r) ==
    /\ r \in DOMAIN runs
    /\ LegOf(r).active
    /\ runs[r].pc = "leg"
    /\ Len(LegOf(r).path) >= 2
    /\ ~Disturbed(r)

\* C20: in a current run that is never cancelled, a leg of at least two
\* points, positive length and positive speed completes after finitely many
\* frames when frames keep being delivered: every frame strictly advances
\* the path index or the segment fraction, from the first frame on, and the
\* promise of the leg is eventually resolved.
C20_LegCompletes ==
    /\ [][\A r \in DOMAIN runs :
            (InFrameLoop(r) /\ InFrameLoop(r)' /\ runs'[r].i = runs[r].i
                /\ runs'[r].handle # runs[r].handle) =>
                \/ runs'[r].leg.currentPathIdx > LegOf(r).currentPathIdx
                \/ /\ runs'[r].leg.currentPathIdx = LegOf(r).currentPathIdx
                   /\ Gt(runs'[r].leg.segmentProgress, LegOf(r).segmentProgress)]_vars
    /\ \A r \in RunIds :
          [](InFrameLoop(r) =>
                <>(r \in DOMAIN runs /\ (~LegOf(r).active \/ Disturbed(r))))

\* C21: on the arrival of a leg showLabel is invoked only if the leg has a
\* destination label (toName): a label that is shown is not the empty
\* label, and a run waits in the arrival narration (between showLabel and
\* hideLabel, or after hideLabel) only for a leg that has one.
C21_LabelOnlyIfNamed ==
    /\ view.labelShown => view.label # NoName
    /\ \A r \in DOMAIN runs :
          runs[r].pc \in {"arriveRead", "arriveFade"} =>
              runs[r].journey[runs[r].i + 1].toName # NoName

\* the target zoom of the first leg of run r (line 129 for leg 0)
FirstTargetZoom(r) == Lookup(runs[r].modeZooms, runs[r].journey[1].mode, Q(10, 1))

\* C22: the establishing camera that the opening sets has a zoom strictly
\* smaller than the target zoom of the mode of the first leg, whatever the
\* mode and the zoom settings.
C22_EstablishingZoomBelowTarget ==
    \A r \in DOMAIN runs :
        runs[r].atOpening # << >> =>
            Lt(runs[r].atOpening[1].camera.zoom, FirstTargetZoom(r))

\* the caller's value for the mode if the caller gave one, otherwise the
\* built-in default of the mode
Configured(given, defaults, mode) ==
    IF mode \in DOMAIN given THEN given[mode] ELSE defaults[mode]

\* the mode of the leg that run r is at
ModeOf(r) == runs[r].journey[runs[r].i + 1].mode

\* C23: the speed and the zoom used for a leg are the caller's settings
\* value for the mode of the leg when there is one and the default of the
\* mode otherwise (the camera flies to that zoom, and animateLeg is given
\* that zoom and that speed), and the settings are read once, at the start
\* of the run.
C23_SettingsOrDefaults ==
    /\ [](\A r \in DOMAIN runs :
            /\ (runs[r].pc = "settle" /\ runs[r].myRunId = currentRunId) =>
                  view.camera.zoom =
                      Configured(runs[r].settings.zooms, DEFAULT_MODE_ZOOMS, ModeOf(r))
            /\ LegOf(r).active =>
                  /\ LegOf(r).targetZoom =
                         Configured(runs[r].settings.zooms, DEFAULT_MODE_ZOOMS, ModeOf(r))
                  /\ LegOf(r).REAL_SPEED =
                         Times(Configured(runs[r].settings.speeds, DEFAULT_MODE_SPEEDS,
                                          ModeOf(r)), Q(2, 10)))
    /\ [][\A r \in DOMAIN runs :
            /\ runs'[r].modeZooms = runs[r].modeZooms
            /\ runs'[r].modeSpeeds = runs[r].modeSpeeds]_vars

\* progress ratios k/20, from 0 to 1
ProgressSteps == 0..20

\* the ease factor the claim gives for progress k/20, in units of 1/FP:
\* from 0.1 up to 1.0 over 0..0.1, 1.0 up to 0.9, down to 0.1 at 1
EaseExpected(k) ==
    LET p == (k * FP) \div 20
    IN  IF p < FP \div 10 THEN FP \div 10 + 9 * p
        ELSE IF p <= 9 * (FP \div 10) THEN FP
        ELSE FP - 9 * (p - 9 * (FP \div 10))

\* C24: for every progress ratio in [0, 1] that a frame can have, the ease
\* factor the frame computes is a number between 0.1 and 1.0: in a leg that
\* is in its frame loop the factor of the next frame is in that range, and
\* the factor rises from 0.1 to 1.0 over 0..0.1, is 1.0 up to 0.9 and falls
\* to 0.1 at 1.
C24_EaseFactorRange ==
    \A r \in DOMAIN runs :
        (LegOf(r).active /\ runs[r].pc = "leg") =>
            /\ Ge(easeFactor(progressRatioAt(LegOf(r))), Q(1, 10))
            /\ Le(easeFactor(progressRatioAt(LegOf(r))), Q(1, 1))
            /\ \A k \in ProgressSteps : easeFactor(Q(k, 20)) = Num(EaseExpected(k))

\* coordinate c of the result of the call is at fraction t of the way from
\* coordinate c of p1 to coordinate c of p2, in fixed point:
\* out - a = (b - a) * t
Interpolated(c) ==
    \E a \in geo.p1[c], b \in geo.p2[c], t \in geo.t, o \in geo.out[1][c] :
        (o - a) * FP = (b - a) * t

LastCalls(n) == IF Len(log) < n THEN << >> ELSE SubSeq(log, Len(log) - n + 1, Len(log))

\* run r made the last call of the last task
Acted(r) == log # << >> /\ log[Len(log)][1] = r

\* the leg that run r is at
LegAt(r) == runs[r].journey[runs[r].i + 1]

\* C26: for each leg a current run sets the glyph of the mode, starts the
\* camera fly to the first point of the leg with the target zoom and pitch
\* of the leg and waits; animateLeg runs to its end before the path of the
\* leg is appended to the completed legs; then the active trail is cleared,
\* the completed trail published and only then the arrival narrated; and
\* nothing of leg i+1 happens before the narration of leg i has ended.
C26_LegStepsInOrder ==
    \A r \in DOMAIN runs :
        /\ PhaseOrder(r)
        /\ (runs[r].pc = "settle" /\ Acted(r)) =>
              /\ LastCalls(3) = <<<<r, "setGlyph">>, <<r, "flyTo">>, <<r, "wait">>>>
              /\ view.glyph = LegAt(r).mode
              /\ view.camera =
                     Camera("flyTo", LegAt(r).pathCoords[1],
                            Lookup(runs[r].modeZooms, LegAt(r).mode, Q(10, 1)),
                            Lookup(MODE_PITCH, LegAt(r).mode, Q(40, 1))).camera
        /\ (runs[r].pc = "arriveRead" /\ Acted(r)) =>
              /\ LastCalls(5) = <<<<r, "updateActiveTrail">>, <<r, "updateCompletedTrail">>,
                                  <<r, "showLabel">>, <<r, "easeTo">>, <<r, "wait">>>>
              /\ runs[r].completedLegsCoords = Paths(runs[r].journey, runs[r].i + 1)
              /\ view.activeTrail = << >>
              /\ view.completedTrail = runs[r].completedLegsCoords
              /\ view.label = LegAt(r).toName
        /\ (runs[r].pc \in {"arriveRead", "arriveFade"} /\ runs[r].myRunId = currentRunId) =>
              /\ view.glyph = LegAt(r).mode
              /\ view.camera.op = "easeTo"
              /\ Len(runs[r].started) = runs[r].i + 1
        /\ (runs[r].pc = "settle" /\ Acted(r) /\ runs[r].i > 0 /\ ~runs[r].labels) =>
              LastCalls(5) = <<<<r, "updateActiveTrail">>, <<r, "updateCompletedTrail">>,
                               <<r, "setGlyph">>, <<r, "flyTo">>, <<r, "wait">>>>

\* a run of two legs has committed its second leg and narrates its arrival
C26_Witness ==
    \E r \in DOMAIN runs :
        /\ runs[r].pc = "arriveRead"
        /\ runs[r].i = 1
        /\ Acted(r)
        /\ runs[r].myRunId = currentRunId
        /\ view.completedTrail = Paths(runs[r].journey, 2)
        /\ view.labelShown

\* run r has got past the opening: it waits in it or in a leg, or it has
\* flown the camera to a leg or handed a leg to animateLeg
PastOpening(r) ==
    \/ runs[r].pc \in Suspended
    \/ runs[r].started # << >>
    \/ \E k \in 1..Len(log) : log[k] = <<r, "flyTo">>

\* C27: in a run with a non-empty journey, before any leg is processed
\* (before the first camera fly and before any frame), the marker is put
\* at the first point of the first leg, the active trail and the completed
\* trail are both published empty and the camera is set at once, centred on
\* that point.
C27_OpeningPlacesMarker ==
    \A r \in DOMAIN runs :
        /\ (runs[r].journey # << >> /\ PastOpening(r)) => runs[r].atOpening # << >>
        /\ runs[r].atOpening # << >> =>
              /\ runs[r].atOpening[1].marker = runs[r].journey[1].pathCoords[1]
              /\ runs[r].atOpening[1].glyph = runs[r].journey[1].mode
              /\ runs[r].atOpening[1].activeTrail = << >>
              /\ runs[r].atOpening[1].completedTrail = << >>
              /\ runs[r].atOpening[1].camera.op = "jumpTo"
              /\ runs[r].atOpening[1].camera.center = runs[r].journey[1].pathCoords[1]
        \* the task that opened the run: its calls begin with the opening
        /\ (runs[r].caught = << >> /\ Len(log) >= 2
                /\ log[1] = <<r, "setGlyph">> /\ log[2] = <<r, "setLngLat">>) =>
              /\ Len(log) > 5
              /\ SubSeq(log, 1, 5) = <<<<r, "setGlyph">>, <<r, "setLngLat">>,
                                       <<r, "updateActiveTrail">>,
                                       <<r, "updateCompletedTrail">>, <<r, "jumpTo">>>>
        /\ (runs[r].caught = << >> /\ runs[r].i = 0 /\ runs[r].pc = "settle"
                /\ Acted(r) /\ ~(runs[r].labels /\ runs[r].journey[1].fromName # NoName)) =>
              /\ Len(log) >= 8
              /\ SubSeq(log, Len(log) - 7, Len(log) - 3) =
                     <<<<r, "setGlyph">>, <<r, "setLngLat">>, <<r, "updateActiveTrail">>,
                       <<r, "updateCompletedTrail">>, <<r, "jumpTo">>>>

\* a second run has opened over the trail that the first run had completed
C27_Witness ==
    /\ Len(runs) = 2
    /\ runs[1].completedLegsCoords # << >>
    /\ runs[2].atOpening # << >>
    /\ runs[2].pc = "settle"
    /\ runs[2].myRunId = currentRunId
    /\ view.completedTrail = << >>
    /\ view.marker = runs[2].journey[1].pathCoords[1]

\* C28: between the frames of animateLeg, before and after each frame, the
\* fraction of the segment satisfies 0 <= segmentProgress < 1; no frame
\* ends with a fraction of 1 or more, or with one that is not a number.
C28_FractionBounded ==
    \A r \in DOMAIN runs :
        (LegOf(r).active /\ runs[r].pc = "leg") =>
            /\ ~IsNaN(LegOf(r).segmentProgress)
            /\ Ge(LegOf(r).segmentProgress, Num(0))
            /\ Lt(LegOf(r).segmentProgress, Q(1, 1))

\* C29: within a leg currentPathIdx never decreases from one frame to the
\* next, and a frame that interpolates the marker does so with
\* 0 <= currentPathIdx <= path.length - 2, so that path[currentPathIdx + 1]
\* exists when it is read.
C29_PathIndexMonotone ==
    /\ [](\A r \in DOMAIN runs :
            (LegOf(r).active /\ runs[r].pc = "leg") =>
                /\ LegOf(r).currentPathIdx >= 0
                /\ LegOf(r).currentPathIdx <= Len(LegOf(r).path) - 2
                /\ LegOf(r).currentPathIdx + 2 \in DOMAIN LegOf(r).path
                /\ LegOf(r).p2 = LegOf(r).path[LegOf(r).currentPathIdx + 2])
    /\ [][\A r \in DOMAIN runs :
            (LegOf(r).active /\ runs'[r].leg.active /\ runs'[r].i = runs[r].i) =>
                runs'[r].leg.currentPathIdx >= LegOf(r).currentPathIdx]_vars

\* the frames of a leg of eleven points have brought the index to 9, the
\* last index with a point after it
C29_Witness ==
    \E r \in DOMAIN runs :
        /\ LegOf(r).active
        /\ runs[r].pc = "leg"
        /\ runs[r].myRunId = currentRunId
        /\ Len(LegOf(r).path) = 11
        /\ LegOf(r).currentPathIdx = 9
        /\ view.marker = LegOf(r).path[10]

\* C30: at every frame of a leg distanceCovered has not decreased and is
\* at most totalDist, the sum of the lengths of the segments of the path,
\* so that progressRatio is within 0..1; progressRatio is 1 when totalDist
\* is 0.
C30_DistanceWithinTotal ==
    /\ [](\A r \in DOMAIN runs :
            (LegOf(r).active /\ runs[r].pc = "leg") =>
                /\ LegOf(r).totalDist = PathLength(LegOf(r).path, 1)
                /\ Ge(LegOf(r).distanceCovered, Num(0))
                /\ Le(LegOf(r).distanceCovered, LegOf(r).totalDist)
                /\ Ge(progressRatioAt(LegOf(r)), Num(0))
                /\ Le(progressRatioAt(LegOf(r)), Q(1, 1))
                /\ progressRatioAt([LegOf(r) EXCEPT !.totalDist = Num(0)]) = Q(1, 1))
    /\ [][\A r \in DOMAIN runs :
            (LegOf(r).active /\ runs'[r].leg.active /\ runs'[r].i = runs[r].i) =>
                Ge(runs'[r].leg.distanceCovered, LegOf(r).distanceCovered)]_vars

\* a leg is some frames on with its progress ratio within 0..1
C30_Witness ==
    \E r \in DOMAIN runs :
        /\ LegOf(r).active
        /\ runs[r].pc = "leg"
        /\ runs[r].myRunId = currentRunId
        /\ LegOf(r).currentPathIdx = 5
        /\ Gt(LegOf(r).totalDist, Num(0))
        /\ Le(progressRatioAt(LegOf(r)), Q(1, 1))

\* the last task was a frame of run r that interpolated the marker
Interpolating(r) ==
    /\ LegOf(r).active
    /\ Len(log) >= 2
    /\ log[Len(log)] = <<r, "requestAnimationFrame">>
    /\ \E k \in 1..Len(log) : log[k] \in {<<r, "setLngLat">>, <<r, "jumpTo">>}

\* C31: a frame that interpolates the marker sets the camera in the same
\* frame, centred on the point 30% of the way from the position of the
\* marker to path[currentPathIdx + 1], with the target zoom and pitch of the
\* leg and bearing 0; the marker, the active trail and the camera are
\* updated together.
C31_CameraLeadsMarker ==
    \A r \in DOMAIN runs :
        Interpolating(r) =>
            /\ log = <<<<r, "setLngLat">>, <<r, "updateActiveTrail">>, <<r, "jumpTo">>,
                       <<r, "requestAnimationFrame">>>>
            /\ view.marker = lerp(LegOf(r).p1, LegOf(r).p2, LegOf(r).segmentProgress)
            /\ view.activeTrail = Append(LegOf(r).activeTrail, view.marker)
            /\ view.camera.op = "jumpTo"
            /\ view.camera.center = lerp(view.marker, LegOf(r).p2, Q(3, 10))
            /\ \A c \in 1..2 : ~IsNaN(view.camera.center[c])
            /\ view.camera.zoom = LegOf(r).targetZoom
            /\ view.camera.zoom = Lookup(runs[r].modeZooms, LegAt(r).mode, Q(10, 1))
            /\ view.camera.pitch = Lookup(MODE_PITCH, LegAt(r).mode, Q(40, 1))
            /\ view.camera.bearing = Num(0)

\* the segment that the next frame of run r steps on is at most 0.0001 km
Degenerate(r) == Le(getDistance(LegOf(r).p1, LegOf(r).p2), Q(1, 10000))

\* C32: when the current segment is at most 0.0001 km long, the frame
\* advances currentPathIdx by exactly one and leaves segmentProgress and
\* distanceCovered as they were.
C32_SkipConsumesNothing ==
    [][\A r \in DOMAIN runs :
        (/\ LegOf(r).active
         /\ runs[r].pc = "leg"
         /\ Degenerate(r)
         /\ runs[r].handle \in rafQueue
         /\ runs[r].handle \notin rafQueue'
         /\ runs[r].myRunId = currentRunId
         /\ currentRunId' = currentRunId
         /\ stops' = stops
         /\ ~runs'[r].frameThrew) =>
            IF runs'[r].leg.active
            THEN /\ runs'[r].leg.currentPathIdx = LegOf(r).currentPathIdx + 1
                 /\ runs'[r].leg.segmentProgress = LegOf(r).segmentProgress
                 /\ runs'[r].leg.distanceCovered = LegOf(r).distanceCovered
            ELSE LegOf(r).currentPathIdx + 1 = Len(LegOf(r).path) - 1]_vars

\* a frame has skipped the third segment of a leg of duplicate points
C32_Witness ==
    \E r \in DOMAIN runs :
        /\ LegOf(r).active
        /\ runs[r].pc = "leg"
        /\ runs[r].myRunId = currentRunId
        /\ Degenerate(r)
        /\ LegOf(r).currentPathIdx = 3
        /\ LegOf(r).segmentProgress = Num(0)
        /\ LegOf(r).distanceCovered = Num(0)
        /\ log[Len(log)] = <<r, "requestAnimationFrame">>

\* C33: at any time at most one frame callback is pending, and when one is
\* pending animationFrameId holds its handle, so that stopAnimation cancels
\* every pending frame.
C33_OnePendingFrame ==
    /\ Cardinality(rafQueue) <= 1
    /\ rafQueue # {} => rafQueue = {animationFrameId}
    /\ stopAnimation(World(0)).raf = {}
    /\ \A h \in rafQueue : Owner(h) \in DOMAIN runs /\ runs[Owner(h)].handle = h

\* the frame of a second run is pending after the first run, which had a
\* frame pending, was superseded
C33_Witness ==
    /\ Len(runs) = 2
    /\ runs[1].pc = "leg"
    /\ runs[1].handle # 0
    /\ runs[1].superseded
    /\ rafQueue = {runs[2].handle}
    /\ animationFrameId = runs[2].handle

\* C34: in a run onComplete and onError are never both invoked, and each
\* of them is invoked at most once.
C34_OneOutcome ==
    \A r \in DOMAIN runs :
        /\ runs[r].nComplete <= 1
        /\ runs[r].nError <= 1
        /\ ~(runs[r].nComplete > 0 /\ runs[r].nError > 0)

IsLabelCall(e) == e[2] \in {"showLabel", "hideLabel"}

\* the showLabel and hideLabel calls that run r made in the task that led
\* to the state s of the log
LabelCalls(s, r) == SelectSeq(s, LAMBDA e : e[1] = r /\ IsLabelCall(e))

\* the last label call of run r was showLabel: the run waits for the
\* reader, at the opening or at an arrival
LabelUp(r) == r \in DOMAIN runs /\ runs[r].pc \in {"openRead", "arriveRead"}

\* C35: within a run the showLabel and hideLabel calls alternate strictly,
\* starting with showLabel, and when a run that narrates reaches onComplete
\* each of its showLabel calls has been followed by a hideLabel: no label
\* is showing then (a run over an empty journey makes no label call).
C35_LabelsAlternate ==
    /\ [][\A r \in DOMAIN runs' :
            LET calls == LabelCalls(log', r)
            IN  calls # << >> =>
                    /\ calls[1][2] = IF LabelUp(r) THEN "hideLabel" ELSE "showLabel"
                    /\ \A k \in 1..(Len(calls) - 1) : calls[k][2] # calls[k + 1][2]]_vars
    /\ [](\A r \in DOMAIN runs :
            /\ (runs[r].nComplete > 0 /\ runs[r].labels /\ runs[r].journey # << >>) =>
                  ~runs[r].atComplete[1].labelShown
            /\ runs[r].nComplete > 0 => ~LabelUp(r)
            /\ (LabelUp(r) /\ runs[r].myRunId = currentRunId) => view.labelShown)

\* a run has shown and hidden the label of its opening and of its first
\* arrival and has called onComplete with no label showing
C35_Witness ==
    \E r \in DOMAIN runs :
        /\ runs[r].labels
        /\ Len(runs[r].journey) = 2
        /\ runs[r].journey[1].fromName # NoName
        /\ runs[r].nComplete = 1
        /\ ~runs[r].atComplete[1].labelShown
        /\ ~view.labelShown

\* C36: in the director of animate.js, a run that was suspended (at a timed
\* wait or with a frame pending) when a later animateJourney call was made
\* makes no further view call and never calls its onComplete after that call,
\* and the frames pending at any time belong to one run.
C36_FlagSupersededRunIsSilent ==
    /\ \A r \in DOMAIN runs :
          runs[r].cancel = "start" =>
              runs[r].late \cap {"view", "complete"} = {}
    /\ \A g, h \in rafQueue : Owner(g) = Owner(h)

\* C37: in the director of animate.js, a run that was suspended when
\* stopAnimation() was called, with no later animateJourney call, makes no
\* further view call and never calls its onComplete.
C37_FlagStoppedRunIsSilent ==
    \A r \in DOMAIN runs :
        (runs[r].cancel = "stop" /\ ~runs[r].superseded) =>
            runs[r].late \cap {"view", "complete"} = {}

\* the legs of the journey that have a route, in journey order
RoutedLegs(journey) ==
    SelectSeq([k \in 1..Len(journey) |-> k - 1],
              LAMBDA k : Len(journey[k + 1].pathCoords) > 0)

\* the run is a run of part_001 over a journey whose first leg has a route,
\* with an onComplete that returns
LoopCase(r) ==
    /\ Len(runs[r].journey) > 0
    /\ Len(runs[r].journey[1].pathCoords) > 0
    /\ runs[r].onCompleteDoes = "return"

\* C38: in the director of part_001, for a journey whose first leg has a
\* route, onLegStart is called at most once per leg, in journey order and only
\* for legs with a route; and when onComplete is called it is called once,
\* with no frame pending, after onLegStart has been called for every leg with
\* a route and every such leg's path has been put in the completed trail
\* exactly once.
C38_LoopRunsEveryRoutedLeg ==
    \A r \in DOMAIN runs :
        LoopCase(r) =>
            /\ \E n \in 0..Len(RoutedLegs(runs[r].journey)) :
                  runs[r].legStarts = SubSeq(RoutedLegs(runs[r].journey), 1, n)
            /\ runs[r].nComplete <= 1
            /\ runs[r].nComplete = 1 =>
                  /\ runs[r].atComplete = {}
                  /\ runs[r].legStarts = RoutedLegs(runs[r].journey)
                  /\ runs[r].completedLegsCoords =
                         [k \in 1..Len(runs[r].legStarts) |->
                             runs[r].journey[runs[r].legStarts[k] + 1].pathCoords]

\* C39: in the application, whenever isAnimating is true (Play has set it) it
\* eventually becomes false again, so that Play and Clear become usable.
C39_PlayEventuallyEnds == isAnimating ~> ~isAnimating
====
